---- MODULE Spec2Model ----
(***************************************************************************)
(* A model of the httpmock server: the expectation record                  *)
(* (request.Request), the sequential planner (planner.sequence), the       *)
(* matching engine (planner.MatchRequest) and the request lifecycle of     *)
(* Server.ServeHTTP, with the server mutex that every expectation shares.  *)
(*                                                                         *)
(* Text is modelled as a sequence of tokens: one token per character       *)
(* where the character can matter to fmt.Sprintf ("%", digits, verbs),    *)
(* and one token for a literal chunk that holds no "%".                   *)
(***************************************************************************)
EXTENDS Integers, Sequences, FiniteSets, TLC

\* ---------------------------------------------------------------- bounds

\* Expectations that Server.Expect may register in one run.
MaxExpect == 2
\* Clients; each sends one HTTP request.
MaxClients == 3
\* Largest repeat count given to Times.
MaxTimes == 2
\* Setter calls made on registered expectations in one run.
MaxSetters == 1
\* Requests sent in a run in which the test configures the server while
\* requests are served.
MaxRaceClients == 2
MaxTimesCalls == 2
MaxReads == 3

\* ------------------------------------------------------------- constants

StatusOK == 200
StatusCreated == 201
StatusInternalServerError == 500

\* A nil error, a nil byte slice, an absent map key: a text no string equals.
Nil == <<"<nil>">>

Clients == 1..MaxClients

UriA == <<"/", "a">>
\* A request target with a percent-escape ("/%2f").
UriEsc == <<"/", "%", "2", "f">>

EmptyText == <<>>
BodyX == <<"x">>
HelloBody == <<"h", "i">>
BoomText == <<"boom">>
\* An error text with a percent sign ("bad %v").
PercentErrText == <<"bad ", "%", "v">>
TokenT == <<"t">>

ReqHeaderNames == {"Authorization"}
RespHeaderNames == {"x-id", "X-Id", "etag"}

NoHeaders(names) == [n \in names |-> Nil]

\* --------------------------------------------------------------- fmt

Digits == {"0", "1", "2", "3", "4", "5", "6", "7", "8", "9"}
Flags == {"#", "0", "+", "-", " "}

\* The flags, width and precision that may stand between "%" and the verb.
RECURSIVE SkipFlags(_)
SkipFlags(f) ==
    IF f # <<>> /\ Head(f) \in (Flags \cup Digits \cup {"."})
    THEN SkipFlags(Tail(f))
    ELSE f

Quote(t) == <<"\"">> \o t \o <<"\"">>

\* One formatted operand: verb v applied to the string argument a.
FormatArg(v, a) ==
    IF v \in {"s", "v", "d"} THEN a
    ELSE IF v = "q" THEN Quote(a)
    ELSE <<"%", "!", v, "(string=">> \o a \o <<")">>

\* fmt.Sprintf(format, args...) on string arguments: a "%" with a verb takes
\* the next argument; with no argument left it prints %!verb(MISSING); "%%"
\* prints "%"; a "%" that ends the format prints %!(NOVERB).
RECURSIVE Sprintf(_, _)
Sprintf(f, args) ==
    IF f = <<>> THEN <<>>
    ELSE IF Head(f) # "%" THEN <<Head(f)>> \o Sprintf(Tail(f), args)
    ELSE LET rest == SkipFlags(Tail(f)) IN
         IF rest = <<>> THEN <<"%", "!", "(NOVERB)">>
         ELSE LET v == Head(rest) IN
              IF v = "%" THEN <<"%">> \o Sprintf(Tail(rest), args)
              ELSE IF args = <<>>
                   THEN <<"%", "!", v, "(MISSING)">> \o Sprintf(Tail(rest), args)
                   ELSE FormatArg(v, Head(args)) \o Sprintf(Tail(rest), Tail(args))

\* ------------------------------------------------------------- requests

\* An incoming *http.Request: bodyErr says that reading the body fails.
Req(m, u, auth, b, be) ==
    [method |-> m, uri |-> u,
     header |-> [n \in ReqHeaderNames |-> auth],
     body |-> b, bodyErr |-> be]

ReqSet ==
    { Req("GET", UriA, Nil, EmptyText, FALSE),
      Req("POST", UriA, TokenT, BodyX, FALSE),
      Req("GET", UriEsc, Nil, EmptyText, FALSE),
      Req("GET", UriA, Nil, BodyX, TRUE) }

ReadErrText == <<"read error">>
CloseErrText == <<"close error">>

\* An io.ReadCloser: the bytes behind it, how many of them have been read,
\* and whether Read or Close fails ("no", "read", "close").
Reader(data, pos, fails) == [data |-> data, pos |-> pos, fails |-> fails]

\* io.NopCloser(bytes.NewReader(b)); http.NoBody.
NewReader(b) == Reader(b, 0, "no")
NoBody == NewReader(EmptyText)

\* io.ReadAll: what is left of the stream, which is at its end afterwards;
\* a failing reader gives its error and no bytes.
ReadAll(s) ==
    IF s.fails = "read"
    THEN [bytes |-> EmptyText, err |-> ReadErrText, Body |-> s]
    ELSE [bytes |-> SubSeq(s.data, s.pos + 1, Len(s.data)), err |-> Nil,
          Body |-> [s EXCEPT !.pos = Len(s.data)]]

\* A variant of the last assignment of GetBody with a fault: r.Body is left
\* as ReadAll left it.
BodyKept(body, s) == s

\* GetBody's "r.Body = io.NopCloser(bytes.NewReader(body))".
BodyReplaced(body, s) == NewReader(body)

\* value.GetBody on a request whose Body is s: the bytes, the error, and the
\* Body the request has afterwards.
GetBodyOf(s) ==
    LET rd == ReadAll(s)
    IN IF rd.err # Nil THEN [body |-> Nil, err |-> rd.err, Body |-> rd.Body]
       ELSE IF s.fails = "close" THEN [body |-> Nil, err |-> CloseErrText, Body |-> rd.Body]
       ELSE [body |-> rd.bytes, err |-> Nil, Body |-> BodyReplaced(rd.bytes, rd.Body)]

\* The Body a request of the model arrives with.
ArrivalBody(r) == Reader(r.body, 0, IF r.bodyErr THEN "read" ELSE "no")

\* value.GetBody on a request as it arrived: the body and a nil error, or a
\* read error.
GetBody(r) ==
    GetBodyOf(ArrivalBody(r))

\* http.Header.Get: the value, "" when the header is missing.
HeaderGet(h, n) == IF h[n] = Nil THEN EmptyText ELSE h[n]

\* len() of a map.
MapLen(m) == Cardinality({n \in DOMAIN m : m[n] # Nil})


\* ------------------------------------------------------------- matchers

\* matcher.Match(v) for a string: the exact matcher; a nil *BodyMatcher.
Exact(t) == [kind |-> "exact", expected |-> t]
NoMatcher == [kind |-> "nil", expected |-> EmptyText]

\* matcher.Fn(t, fn) with a function that panics: Expected() returns t.
Fn(t) == [kind |-> "panic", expected |-> t]

\* The value the function of Fn panics with.
PanicText == <<"match panic">>

\* A []byte or string handed to the formatter where a matcher may stand.
Bytes(b) == [kind |-> "bytes", expected |-> b]

\* Matcher.Match(actual) of the exact matcher.
MatcherMatch(m, actual) == m.expected = actual

\* Matcher.Match(actual) does not return: the custom matcher panics.
MatcherPanics(m) == m.kind = "panic"

\* len() of a HeaderMatcher.
HeaderMatcherLen(h) == Cardinality({n \in DOMAIN h : h[n].kind # "nil"})

\* planner.recovered for a panic value that is a string.
recovered(p) == p

\* ---------------------------------------------------------- expectations

\* A response handler (the run field): the bytes and the error it returns.
Handler(b, e) == [body |-> b, err |-> e]

\* request.NewRequest: status 200, unlimited, no wait, a handler returning nil.
NewRequest(m, u) ==
    [method |-> m,
     requestURI |-> Exact(u),
     requestHeader |-> [n \in ReqHeaderNames |-> NoMatcher],
     requestBody |-> NoMatcher,
     responseCode |-> StatusOK,
     responseHeader |-> NoHeaders(RespHeaderNames),
     run |-> Handler(EmptyText, Nil),
     repeatability |-> 0,
     totalCalls |-> 0,
     waitFor |-> 0,
     waitTime |-> 0]

\* ------------------------------------------------------------ formatting

\* The header lines of format.formatRequestTimes, keys sorted: the model has
\* one request header name, so the sort is over at most one key.
HeaderLines(h) ==
    IF MapLen(h) = 0 THEN <<>>
    ELSE <<"    with header:\n", "        ", "Authorization", ": ">>
         \o HeaderGet(h, "Authorization") \o <<"\n">>

\* format.formatValueInline of a header's matcher: Expected(), and for an
\* FnMatcher with no expectation text a fixed phrase.
formatValueInline(m) ==
    IF m.kind = "panic" /\ m.expected = EmptyText
    THEN <<"matches custom expectation">>
    ELSE m.expected

\* The body lines of format.formatRequestTimes; formatType adds nothing for
\* bytes, the exact matcher and an FnMatcher.
BodyLines(b) ==
    IF b.kind = "nil" \/ b.expected = EmptyText THEN <<>>
    ELSE <<"    with body", "\n", "        ">> \o b.expected \o <<"\n">>

TimesSuffix(totalCalls, remainingCalls) ==
    IF remainingCalls > 0 /\ (totalCalls # 0 \/ remainingCalls # 1)
    THEN <<" (called: ", ToString(totalCalls), " time(s), remaining: ",
           ToString(remainingCalls), " time(s))">>
    ELSE <<>>

\* format.formatRequestTimes.
formatRequestTimes(method, uri, header, body, totalCalls, remainingCalls) ==
    <<method, " ">> \o uri \o TimesSuffix(totalCalls, remainingCalls) \o <<"\n">>
    \o HeaderLines(header) \o BodyLines(body)

\* format.ExpectedRequestTimes of an expectation.
ExpectedRequestTimes(e, totalCalls, remainingCalls) ==
    formatRequestTimes(e.method, e.requestURI.expected,
                       [n \in DOMAIN e.requestHeader |->
                           IF e.requestHeader[n].kind = "nil" THEN Nil
                           ELSE formatValueInline(e.requestHeader[n])],
                       e.requestBody, totalCalls, remainingCalls)

\* Error.formatActual with format.HTTPRequest: the body is read again.
formatActual(r) ==
    LET got == GetBody(r)
        body == IF got.err # Nil
                THEN <<"could not read request body: ">> \o got.err
                ELSE got.body
    IN formatRequestTimes(r.method, r.uri, r.header, Bytes(body), 0, 0)

\* planner.NewError(...).Error().
ErrorText(e, r, messageFormat, messageArgs) ==
    <<"Expected: ">> \o ExpectedRequestTimes(e, 0, 0)
    \o <<"Actual: ">> \o formatActual(r)
    \o <<"Error: ">> \o Sprintf(messageFormat, messageArgs) \o <<"\n">>

\* -------------------------------------------------------- matching engine

\* Each check returns its error (Nil when it passes) and the matchers whose
\* Match it called, in call order.
Checked(err, calls) == [err |-> err, calls |-> calls]

MatchMethod(e, r) ==
    IF e.method # r.method
    THEN Checked(ErrorText(e, r, <<"method ", "%", "q", " expected, ", "%", "q", " received">>,
                           <<<<e.method>>, <<r.method>>>>), <<>>)
    ELSE Checked(Nil, <<>>)

\* MatchURI: a panic of the matcher is recovered into an error.
MatchURI(e, r) ==
    IF MatcherPanics(e.requestURI)
    THEN Checked(ErrorText(e, r, <<"could not match request uri: ", "%", "s">>,
                           <<recovered(PanicText)>>), <<"uri">>)
    ELSE IF ~MatcherMatch(e.requestURI, r.uri)
    THEN Checked(ErrorText(e, r, <<"request uri ", "%", "q", " expected, ", "%", "q", " received">>,
                           <<e.requestURI.expected, r.uri>>), <<"uri">>)
    ELSE Checked(Nil, <<"uri">>)

\* matcher.HeaderMatcher.Match: nil, or the text of the first failure.
HeaderMatcherMatch(h, header) ==
    IF HeaderMatcherLen(h) = 0 THEN Nil
    ELSE LET n == CHOOSE x \in DOMAIN h : h[x].kind # "nil"
             val == HeaderGet(header, n)
         IN IF ~MatcherMatch(h[n], val)
            THEN Sprintf(<<"header ", "%", "q", " with value ", "%", "q",
                           " expected, ", "%", "q", " received">>,
                         <<<<n>>, h[n].expected, val>>)
            ELSE Nil

\* MatchHeader hands the header matcher's error text to NewError as the
\* format; a panic of a header's matcher is recovered into an error.
MatchHeader(e, r) ==
    IF HeaderMatcherLen(e.requestHeader) = 0 THEN Checked(Nil, <<>>)
    ELSE IF \E n \in DOMAIN e.requestHeader : MatcherPanics(e.requestHeader[n])
    THEN Checked(ErrorText(e, r, <<"could not match header: ", "%", "s">>,
                           <<recovered(PanicText)>>), <<"header">>)
    ELSE LET err == HeaderMatcherMatch(e.requestHeader, r.header)
         IN Checked(IF err # Nil THEN ErrorText(e, r, err, <<>>) ELSE Nil, <<"header">>)

\* MatchBody's "m == nil": no body matcher is set. (NoBodyMatcherNever: the
\* test is left out.)
NoBodyMatcherNever(m) == FALSE

NoBodyMatcher(m) == m.kind = "nil"

\* MatchBody: BodyMatcher.Match reads the body before it calls the matcher;
\* a panic of the matcher is recovered into an error.
MatchBody(e, r) ==
    IF NoBodyMatcher(e.requestBody) THEN Checked(Nil, <<>>)
    ELSE LET got == GetBody(r)
             actual == IF got.err # Nil THEN <<"<could not decode>">> ELSE got.body
         IN IF got.err # Nil
            THEN Checked(ErrorText(e, r, <<"could not match body: ", "%", "s">>, <<got.err>>),
                         <<>>)
            ELSE IF MatcherPanics(e.requestBody)
            THEN Checked(ErrorText(e, r, <<"could not match body: ", "%", "s">>,
                                   <<recovered(PanicText)>>), <<"body">>)
            ELSE IF ~MatcherMatch(e.requestBody, actual)
            THEN IF e.requestBody.expected # EmptyText
                 THEN Checked(ErrorText(e, r, <<"expected request body: ", "%", "s",
                                                ", received: ", "%", "s">>,
                                        <<e.requestBody.expected, actual>>), <<"body">>)
                 ELSE Checked(ErrorText(e, r, <<"body does not match expectation, received: ",
                                                "%", "s">>, <<actual>>), <<"body">>)
            ELSE Checked(Nil, <<"body">>)

\* A variant of MatchRequest with a fault: the four checks all run, and the
\* first error is returned afterwards.
MatchRequestAll(e, r) ==
    LET m == MatchMethod(e, r)
        u == MatchURI(e, r)
        h == MatchHeader(e, r)
        b == MatchBody(e, r)
        calls == m.calls \o u.calls \o h.calls \o b.calls
    IN IF m.err # Nil THEN Checked(m.err, calls)
       ELSE IF u.err # Nil THEN Checked(u.err, calls)
       ELSE IF h.err # Nil THEN Checked(h.err, calls)
       ELSE Checked(b.err, calls)

\* planner.MatchRequest with its call trace: method, URI, header, body; the
\* first error ends it.
MatchRequestRun(e, r) ==
    LET m == MatchMethod(e, r)
        u == MatchURI(e, r)
        h == MatchHeader(e, r)
        b == MatchBody(e, r)
    IN IF m.err # Nil THEN m
       ELSE IF u.err # Nil THEN Checked(u.err, m.calls \o u.calls)
       ELSE IF h.err # Nil THEN Checked(h.err, m.calls \o u.calls \o h.calls)
       ELSE Checked(b.err, m.calls \o u.calls \o h.calls \o b.calls)

\* planner.MatchRequest: the error of the first failing check, or nil.
MatchRequest(e, r) == MatchRequestRun(e, r).err


\* ------------------------------------------------------ response headers

\* textproto.CanonicalMIMEHeaderKey on the model's response header names.
CanonicalMIMEHeaderKey(n) ==
    IF n \in {"x-id", "X-Id"} THEN "X-Id"
    ELSE IF n = "etag" THEN "Etag"
    ELSE n

CanonNames == {CanonicalMIMEHeaderKey(n) : n \in RespHeaderNames}

\* The values a map holds under keys with canonical form k.
ValuesAt(m, k) ==
    {m[n] : n \in {x \in DOMAIN m : m[x] # Nil /\ CanonicalMIMEHeaderKey(x) = k}}

\* A variant of mergeHeaders with a fault: the expectation's headers are
\* written first and the defaults over them.
mergeHeadersDefaultsLast(headers, defaultHeaders) ==
    {h \in [CanonNames -> {Nil} \cup UNION {ValuesAt(headers, k) \cup
                                              ValuesAt(defaultHeaders, k) : k \in CanonNames}] :
        \A k \in CanonNames :
            IF ValuesAt(defaultHeaders, k) # {} THEN h[k] \in ValuesAt(defaultHeaders, k)
            ELSE IF ValuesAt(headers, k) # {} THEN h[k] \in ValuesAt(headers, k)
            ELSE h[k] = Nil}

\* request.mergeHeaders: the defaults are written first, the expectation's
\* headers over them. Go ranges over a map in no fixed order, so two keys of
\* one map with the same canonical form leave either value: the set of the
\* maps the call can return.
mergeHeaders(headers, defaultHeaders) ==
    {h \in [CanonNames -> {Nil} \cup UNION {ValuesAt(headers, k) \cup
                                              ValuesAt(defaultHeaders, k) : k \in CanonNames}] :
        \A k \in CanonNames :
            IF ValuesAt(headers, k) # {} THEN h[k] \in ValuesAt(headers, k)
            ELSE IF ValuesAt(defaultHeaders, k) # {} THEN h[k] \in ValuesAt(defaultHeaders, k)
            ELSE h[k] = Nil}

\* ------------------------------------------------------------- responses

NoResponse == [status |-> 0, header |-> NoHeaders(CanonNames), body |-> Nil]

\* request.FailResponse(w, format): the format is formatted, with no
\* arguments, and written with status 500.
FailResponse(format) ==
    [status |-> StatusInternalServerError,
     header |-> NoHeaders(CanonNames),
     body |-> Sprintf(format, <<>>)]

\* ----------------------------------------------------------------- state

VARIABLES
    exps,                   \* the expectations ever created, by pointer (index)
    timesArgs,              \* per expectation, the arguments of the repeat setters called on it
    expectations,           \* sequence.expectations: the planner's live sequence of pointers
    Requests,               \* Server.Requests: copies of the matched expectations
    defaultRequestOptions,  \* Server.defaultRequestOptions
    defaultResponseHeader,  \* Server.defaultResponseHeader
    mu,                     \* Server.mu, also every expectation's locker: 0, or the client holding it
    pc,                     \* where each client's ServeHTTP call stands
    req,                    \* the request each client sent
    expected,               \* ServeHTTP's local: the pointer Plan returned
    resp,                   \* the response each client received
    reported,               \* the texts given to the test reporter (test.T.Errorf)
    waitChan,               \* the channel given to WaitUntil: "empty", "value" or "closed"
    nset,                   \* setter calls made so far
    met,                    \* what ExpectationsWereMet returned, when it was the last call made
    planner,                \* Server.planner: which planner the server uses
    ret,                    \* the last call made, when it was WithPlanner, ResetExpectations or
                            \* sequence.Plan, and how it ended
    seqMu,                  \* sequence.mu, the planner's own mutex: 0 free, 1 held
    rBody,                  \* r.Body of the request a test of package value holds
    hr,                     \* the expectation a test calls handle on directly
    waitCalls,              \* the wait setters called on hr, in call order
    hnd,                    \* the call of handle on hr: its position, its waits, its writer
    gr,                     \* the goroutines that call a planner of their own concurrently
    lin                     \* that planner with the calls applied whole, in the order of their locks

vars == <<exps, timesArgs, expectations, Requests, defaultRequestOptions,
          defaultResponseHeader, mu, pc, req, expected, resp,
          reported, waitChan, nset, met, planner, ret, seqMu, rBody, hr, waitCalls, hnd,
          gr, lin>>

\* The state of the tests that call a package directly.
bodyVars == <<rBody>>
handleVars == <<hr, waitCalls, hnd>>
goVars == <<gr, lin>>
directVars == <<bodyVars, handleVars, goVars>>

serverVars == <<Requests, defaultRequestOptions, defaultResponseHeader>>
clientVars == <<pc, req, expected, resp, reported>>

Ptrs == 1..Len(exps)

\* The value of met when the last call made was not ExpectationsWereMet.
NotCalled == <<"<not called>">>

\* The last call made was none of WithPlanner, ResetExpectations and Plan.
NoCall == [call |-> "none"]

\* The planners: planner.Sequence() of NewServer, and another instance of it
\* that a test hands to WithPlanner.
DefaultPlanner == "sequence"
Planners == {DefaultPlanner, "sequence'"}

\* A test that calls handle directly: the two kinds of expectation it can
\* build, and the state before it has built one.
OldKind == "request.Request"
LaterKind == "requestExpectation"
NoHandle ==
    [kind |-> OldKind, at |-> "new", ctx |-> "live", slept |-> 0, waited |-> "none",
     defaults |-> NoHeaders(RespHeaderNames), writeErr |-> Nil,
     w |-> NoResponse, wrote |-> <<>>, err |-> Nil]

\* A goroutine that has not made its call of the planner yet.
NoResult == [expected |-> 0, err |-> Nil, panic |-> FALSE]
NoOutcome ==
    [expected |-> 0, err |-> Nil, panic |-> FALSE, expectations |-> <<>>, heap |-> <<>>]
NoGo ==
    [op |-> "none", at |-> "idle", ptr |-> 0,
     req |-> Req("GET", UriA, Nil, EmptyText, FALSE),
     local |-> <<>>, result |-> NoResult, want |-> NoOutcome]

\* NewServer: the sequential planner, nothing registered, no request yet.
Init ==
    /\ exps = <<>>
    /\ timesArgs = <<>>
    /\ expectations = <<>>
    /\ Requests = <<>>
    /\ defaultRequestOptions = <<>>
    /\ defaultResponseHeader = NoHeaders(RespHeaderNames)
    /\ mu = 0
    /\ pc = [c \in Clients |-> "idle"]
    /\ req = [c \in Clients |-> Req("GET", UriA, Nil, EmptyText, FALSE)]
    /\ expected = [c \in Clients |-> 0]
    /\ resp = [c \in Clients |-> NoResponse]
    /\ reported = <<>>
    /\ waitChan = "empty"
    /\ nset = 0
    /\ met = NotCalled
    /\ planner = DefaultPlanner
    /\ ret = NoCall
    /\ seqMu = 0
    /\ rBody = NoBody
    /\ hr = NewRequest("GET", UriA)
    /\ waitCalls = <<>>
    /\ hnd = NoHandle
    /\ gr = [g \in Clients |-> NoGo]
    /\ lin = [seq |-> <<>>, heap |-> <<>>]

\* --------------------------------------------------------------- planner

\* sequence.Expect: the new expectation goes to the end of the sequence.
PlannerExpectFront(seq, p) == <<p>> \o seq

PlannerExpect(seq, p) == Append(seq, p)

\* Variants of nextExpectations with a fault: the head is retired one match
\* late; a head with count 0 is retired by its first match.
nextExpectationsLate(expectedRequests, heap) ==
    LET r == Head(expectedRequests)
        t == heap[r].repeatability
    IN IF t > 0
       THEN [expected |-> r, expectations |-> expectedRequests,
             heap |-> [heap EXCEPT ![r].repeatability = t - 1]]
       ELSE [expected |-> r, expectations |-> Tail(expectedRequests), heap |-> heap]

nextExpectationsRetireUnlimited(expectedRequests, heap) ==
    LET r == Head(expectedRequests)
        t == heap[r].repeatability
    IN IF t > 1
       THEN [expected |-> r, expectations |-> expectedRequests,
             heap |-> [heap EXCEPT ![r].repeatability = t - 1]]
       ELSE [expected |-> r, expectations |-> Tail(expectedRequests),
             heap |-> [heap EXCEPT ![r].repeatability = IF t = 1 THEN 0 ELSE t]]

\* planner.nextExpectations: the head, and what is left of the sequence. A
\* head with a positive count is decremented and kept while the count stays
\* positive; a head with count 0 is kept as it is.
nextExpectations(expectedRequests, heap) ==
    LET r == Head(expectedRequests)
        t == heap[r].repeatability
    IN IF t = 0
       THEN [expected |-> r, expectations |-> expectedRequests, heap |-> heap]
       ELSE IF t > 0
            THEN LET h2 == [heap EXCEPT ![r].repeatability = t - 1]
                 IN IF h2[r].repeatability > 0
                    THEN [expected |-> r, expectations |-> expectedRequests, heap |-> h2]
                    ELSE [expected |-> r, expectations |-> Tail(expectedRequests), heap |-> h2]
            ELSE [expected |-> r, expectations |-> Tail(expectedRequests), heap |-> heap]

\* A variant of Plan with a fault: the first expectation of the sequence
\* that matches is taken, wherever it stands, and leaves the sequence.
RECURSIVE FirstMatch(_, _, _, _)
FirstMatch(seq, heap, r, i) ==
    IF i > Len(seq) THEN 0
    ELSE IF MatchRequest(heap[seq[i]], r) = Nil THEN i
    ELSE FirstMatch(seq, heap, r, i + 1)

PlanAnywhere(seq, heap, r) ==
    IF seq = <<>>
    THEN [expected |-> 0, err |-> Nil, panic |-> TRUE, expectations |-> seq, heap |-> heap]
    ELSE LET i == FirstMatch(seq, heap, r, 1)
         IN IF i = 0
            THEN [expected |-> 0, err |-> MatchRequest(heap[Head(seq)], r),
                  panic |-> FALSE, expectations |-> seq, heap |-> heap]
            ELSE [expected |-> seq[i], err |-> Nil, panic |-> FALSE,
                  expectations |-> SubSeq(seq, 1, i - 1) \o SubSeq(seq, i + 1, Len(seq)),
                  heap |-> heap]

\* sequence.Plan: only the head, s.expectations[0], is matched; on an empty
\* sequence the index is out of range and the call panics.
Plan(seq, heap, r) ==
    IF seq = <<>>
    THEN [expected |-> 0, err |-> Nil, panic |-> TRUE, expectations |-> seq, heap |-> heap]
    ELSE LET err == MatchRequest(heap[Head(seq)], r)
         IN IF err # Nil
            THEN [expected |-> 0, err |-> err, panic |-> FALSE,
                  expectations |-> seq, heap |-> heap]
            ELSE LET n == nextExpectations(seq, heap)
                 IN [expected |-> n.expected, err |-> Nil, panic |-> FALSE,
                     expectations |-> n.expectations, heap |-> n.heap]

\* sequence.mu can be taken: it is free. (SeqCanLockAlways: the methods of
\* the planner take no mutex.)
SeqCanLockAlways == TRUE

SeqCanLock == seqMu = 0

\* The state of sequence.mu when Plan is over. (PlanUnlockOnMatch: the
\* unlock stands before the final return only, so an early return with an
\* error leaves the mutex held.)
PlanUnlockOnMatch(p) == IF p.err # Nil THEN 1 ELSE 0

\* Plan's "defer s.mu.Unlock()": the mutex is free on every return and on
\* a panic.
PlanUnlock(p) == 0

\* A variant of CountCall with a fault: a match is counted twice.
CountCallTwice(heap, r) == [heap EXCEPT ![r].totalCalls = @ + 2]

\* request.CountCall.
CountCall(heap, r) == [heap EXCEPT ![r].totalCalls = @ + 1]


\* ---------------------------------------------------------------- server

\* sync.Mutex.Lock can return: the mutex is free. (CanLockAlways: a server
\* with no mutual exclusion.)
CanLockAlways == TRUE

CanLock == mu = 0

\* Request.Once: Times(1). (OnceOmitted: the expectation keeps the repeat
\* count NewRequest gave it.)
OnceOmitted(e) == e

Once(e) == [e EXCEPT !.repeatability = 1]

\* A default request option: the model's options call Times(i) on the new
\* expectation.
OptionSet == {[times |-> i] : i \in {0, MaxTimes}}

RECURSIVE ApplyOptions(_, _)
ApplyOptions(e, opts) ==
    IF opts = <<>> THEN e
    ELSE ApplyOptions([e EXCEPT !.repeatability = Head(opts).times], Tail(opts))

OptionArgs(opts) == [i \in 1..Len(opts) |-> opts[i].times]

\* Server.WithDefaultRequestOptions.
WithDefaultRequestOptions(opt) ==
    /\ CanLock
    /\ nset < MaxSetters
    /\ nset' = nset + 1
    /\ defaultRequestOptions' = Append(defaultRequestOptions, opt)
    /\ UNCHANGED <<exps, timesArgs, expectations, Requests, defaultResponseHeader, mu,
                   clientVars, waitChan>>
    /\ met' = NotCalled
    /\ ret' = NoCall
    /\ UNCHANGED <<planner, seqMu, directVars>>

\* Server.WithDefaultResponseHeaders.
WithDefaultResponseHeaders(headers) ==
    /\ CanLock
    /\ defaultResponseHeader' = headers
    /\ UNCHANGED <<exps, timesArgs, expectations, Requests, defaultRequestOptions, mu,
                   clientVars, waitChan, nset>>
    /\ met' = NotCalled
    /\ ret' = NoCall
    /\ UNCHANGED <<planner, seqMu, directVars>>

\* Server.Expect: NewRequest(...).Once(), the default options, and, under
\* the server lock, planner.Expect, which appends.
Expect(method, requestURI) ==
    /\ CanLock
    /\ SeqCanLock
    /\ Len(exps) < MaxExpect
    /\ LET once == Once(NewRequest(method, requestURI))
           expect == ApplyOptions(once, defaultRequestOptions)
       IN /\ exps' = Append(exps, expect)
          /\ timesArgs' = Append(timesArgs, OptionArgs(defaultRequestOptions))
          /\ expectations' = PlannerExpect(expectations, Len(exps) + 1)
    /\ UNCHANGED <<serverVars, mu, clientVars, waitChan, nset>>
    /\ met' = NotCalled
    /\ ret' = NoCall
    /\ UNCHANGED <<planner, seqMu, directVars>>

\* The requests that have passed s.mu.Lock() so far.
Arrived == {c \in Clients : pc[c] # "idle"}

\* ServeHTTP, first part: s.mu.Lock() returns. A client that is idle has not
\* sent its request or is blocked in Lock; the clients are numbered in the
\* order in which Lock returns to them, so client c carries the c-th request
\* to be dispatched.
ServeLock(c, r) ==
    /\ pc[c] = "idle"
    /\ c = Cardinality(Arrived) + 1
    /\ CanLock
    /\ mu' = c
    /\ pc' = [pc EXCEPT ![c] = "locked"]
    /\ req' = [req EXCEPT ![c] = r]
    /\ UNCHANGED <<exps, timesArgs, expectations, serverVars, expected, resp, reported,
                   waitChan, nset>>
    /\ met' = NotCalled
    /\ ret' = NoCall
    /\ UNCHANGED <<planner, seqMu, directVars>>

\* Server.failResponsef(w, format, args...): the text is formatted, given to
\* test.Errorf, which formats it again, and to FailResponse, which formats
\* it again.
failResponsef(c, format, args) ==
    LET body == Sprintf(format, args)
    IN /\ reported' = Append(reported, Sprintf(body, <<>>))
       /\ resp' = [resp EXCEPT ![c] = FailResponse(body)]

UnexpectedFormat ==
    <<"unexpected request received: ", "%", "s", " ", "%", "s">>

UnexpectedBodyFormat == UnexpectedFormat \o <<", body:\n", "%", "s">>

\* The holder of s.mu while Handle runs: the unlock is deferred to the
\* return of ServeHTTP, so the request that planned still holds it.
\* (HolderReleased: the lock is given up before Handle.)
HolderReleased(c) == 0

HolderDuringHandle(c) == c

\* ServeHTTP, second part: s.planner.IsEmpty(), and the failure response
\* when no expectation is left.
ServeCheck(c) ==
    /\ pc[c] = "locked"
    /\ SeqCanLock
    /\ IF expectations = <<>>
       THEN /\ LET got == GetBody(req[c])
               IN IF got.err = Nil /\ Len(got.body) > 0
                  THEN failResponsef(c, UnexpectedBodyFormat,
                                     <<<<req[c].method>>, req[c].uri, got.body>>)
                  ELSE failResponsef(c, UnexpectedFormat,
                                     <<<<req[c].method>>, req[c].uri>>)
            /\ pc' = [pc EXCEPT ![c] = "done"]
            /\ mu' = 0
       ELSE /\ pc' = [pc EXCEPT ![c] = "checked"]
            /\ UNCHANGED <<mu, resp, reported>>
    /\ UNCHANGED <<exps, timesArgs, expectations, serverVars, req, expected,
                   waitChan, nset>>
    /\ met' = NotCalled
    /\ ret' = NoCall
    /\ UNCHANGED <<planner, seqMu, directVars>>

\* The log of ServeHTTP, s.Requests = append(s.Requests, *expected): a copy
\* of the expectation goes to the end. (LogRequestFront: to the front.)
LogRequestFront(log, e) == <<e>> \o log

LogRequest(log, e) == Append(log, e)

\* ServeHTTP, third part, up to the call of Handle: s.planner.Plan(r), the
\* planner's error, or the match, which is counted and logged. A panic of
\* Plan ends the call with no response; the deferred unlock still runs.
ServePlan(c) ==
    /\ pc[c] = "checked"
    /\ SeqCanLock
    /\ LET p == Plan(expectations, exps, req[c])
       IN /\ IF p.panic
             THEN /\ pc' = [pc EXCEPT ![c] = "panicked"]
                  /\ mu' = 0
                  /\ UNCHANGED <<exps, expectations, Requests, expected, resp, reported>>
             ELSE IF p.err # Nil
             THEN /\ failResponsef(c, p.err, <<>>)
                  /\ pc' = [pc EXCEPT ![c] = "done"]
                  /\ mu' = 0
                  /\ UNCHANGED <<exps, expectations, Requests, expected>>
             ELSE /\ exps' = CountCall(p.heap, p.expected)
                  /\ expectations' = p.expectations
                  /\ Requests' = LogRequest(Requests, exps'[p.expected])
                  /\ expected' = [expected EXCEPT ![c] = p.expected]
                  /\ pc' = [pc EXCEPT ![c] = "handling"]
                  /\ mu' = HolderDuringHandle(c)
                  /\ UNCHANGED <<resp, reported>>
          /\ seqMu' = PlanUnlock(p)
          /\ UNCHANGED directVars
    /\ UNCHANGED <<timesArgs, defaultRequestOptions, defaultResponseHeader, req,
                   waitChan, nset>>
    /\ met' = NotCalled
    /\ ret' = NoCall
    /\ UNCHANGED planner

\* The wait of Request.handle can end: a receive on a non-nil channel needs
\* a value or a closed channel; time.Sleep always returns.
\* (WaitOverChannelOnly: the receive is made on a nil channel too, and a
\* receive on a nil channel never returns.)
WaitOverChannelOnly(e) == e.waitFor # 0 /\ waitChan \in {"value", "closed"}

WaitOver(e) == e.waitFor = 0 \/ waitChan \in {"value", "closed"}

\* What require.NoError gives to the test reporter for a non-nil error.
NoErrorReport(err) == <<"Received unexpected error:\n">> \o err

\* ServeHTTP, last part: request.Handle (the wait, the handler, the
\* response), require.NoError, and the deferred s.mu.Unlock().
ServeHandle(c) ==
    /\ pc[c] = "handling"
    /\ LET e == exps[expected[c]]
       IN /\ WaitOver(e)
          /\ waitChan' = IF e.waitFor # 0 /\ waitChan = "value" THEN "empty" ELSE waitChan
          /\ IF e.run.err # Nil
             THEN /\ resp' = [resp EXCEPT ![c] = FailResponse(e.run.err)]
                  /\ reported' = Append(reported, NoErrorReport(e.run.err))
             ELSE /\ \E h \in mergeHeaders(e.responseHeader, defaultResponseHeader) :
                        resp' = [resp EXCEPT ![c] =
                                    [status |-> e.responseCode, header |-> h,
                                     body |-> e.run.body]]
                  /\ UNCHANGED reported
    /\ pc' = [pc EXCEPT ![c] = "done"]
    /\ mu' = 0
    /\ UNCHANGED <<exps, timesArgs, expectations, serverVars, req, expected,
                   nset>>
    /\ met' = NotCalled
    /\ ret' = NoCall
    /\ UNCHANGED <<planner, seqMu, directVars>>


\* The test of the loop of Server.ExpectationsWereMet that skips an
\* expectation. (IsMetOnceCalled: the repeat count is not looked at.)
IsMetOnceCalled(repeat, calls) == calls > 0

IsMet(repeat, calls) == repeat < 1 /\ calls > 0

\* The loop of Server.ExpectationsWereMet over planner.Remain(): an
\* expectation with repeat < 1 and calls > 0 is skipped, every other one is
\* written as a line and counted.
RECURSIVE MetLoop(_, _, _, _)
MetLoop(remain, heap, sb, count) ==
    IF remain = <<>> THEN [sb |-> sb, count |-> count]
    ELSE LET e == heap[Head(remain)]
             repeat == e.repeatability
             calls == e.totalCalls
         IN IF IsMet(repeat, calls)
            THEN MetLoop(Tail(remain), heap, sb, count)
            ELSE MetLoop(Tail(remain), heap,
                         sb \o <<"- ">> \o ExpectedRequestTimes(e, calls, repeat),
                         count + 1)

NotMetHeader == <<"there are remaining expectations that were not met:\n">>

\* What Server.ExpectationsWereMet returns: nil, or the error's text.
ExpectationsWereMetResult(remain, heap) ==
    IF remain = <<>> THEN Nil
    ELSE LET r == MetLoop(remain, heap, NotMetHeader, 0)
         IN IF r.count = 0 THEN Nil ELSE r.sb

\* A variant of ExpectationsWereMet with a fault: the expectations it has
\* reported are taken out of the planner.
ExpectationsWereMetDraining ==
    /\ CanLock
    /\ SeqCanLock
    /\ met' = ExpectationsWereMetResult(expectations, exps)
    /\ ret' = NoCall
    /\ expectations' = <<>>
    /\ UNCHANGED <<exps, timesArgs, serverVars, mu, clientVars, waitChan, nset,
                   planner, seqMu, directVars>>

\* Server.ExpectationsWereMet.
ExpectationsWereMet ==
    /\ CanLock
    /\ SeqCanLock
    /\ met' = ExpectationsWereMetResult(expectations, exps)
    /\ ret' = NoCall
    /\ UNCHANGED <<exps, timesArgs, expectations, serverVars, mu, clientVars, waitChan, nset,
                   planner, seqMu, directVars>>

\* sequence.Reset. (PlannerResetKeep: the sequence is left as it is.)
PlannerResetKeep(seq) == seq

PlannerReset(seq) == <<>>

\* Server.ResetExpectations: the log and the planner are emptied.
ResetExpectations ==
    /\ CanLock
    /\ SeqCanLock
    /\ Requests' = <<>>
    /\ expectations' = PlannerReset(expectations)
    /\ UNCHANGED <<exps, timesArgs, defaultRequestOptions, defaultResponseHeader, mu,
                   clientVars, waitChan, nset, planner, seqMu, directVars>>
    /\ met' = NotCalled
    /\ ret' = [call |-> "ResetExpectations"]

NotEmptyPanic == <<"could not change planner: planner is not empty">>

\* A variant of WithPlanner with a fault: the planner is replaced without
\* asking whether it is empty.
WithPlannerUnchecked(p) ==
    /\ CanLock
    /\ SeqCanLock
    /\ ret' = [call |-> "WithPlanner", p |-> p, panic |-> Nil]
    /\ planner' = p
    /\ UNCHANGED <<exps, timesArgs, expectations, serverVars, mu, clientVars, waitChan, nset,
                   seqMu, directVars>>
    /\ met' = NotCalled

\* Server.WithPlanner: a panic when the planner holds an expectation (the
\* deferred unlock runs), the new planner otherwise.
WithPlanner(p) ==
    /\ CanLock
    /\ SeqCanLock
    /\ IF expectations # <<>>
       THEN /\ ret' = [call |-> "WithPlanner", p |-> p, panic |-> NotEmptyPanic]
            /\ UNCHANGED planner
       ELSE /\ ret' = [call |-> "WithPlanner", p |-> p, panic |-> Nil]
            /\ planner' = p
    /\ UNCHANGED <<exps, timesArgs, expectations, serverVars, mu, clientVars, waitChan, nset,
                   seqMu, directVars>>
    /\ met' = NotCalled

\* ---------------------------------------------------------------- setters

\* A setter of request.Request: it takes the shared lock, assigns, unlocks.
Setter(e, new) ==
    /\ CanLock
    /\ e \in Ptrs
    /\ nset < MaxSetters
    /\ nset' = nset + 1
    /\ exps' = [exps EXCEPT ![e] = new]
    /\ UNCHANGED <<expectations, serverVars, mu, clientVars, waitChan>>
    /\ met' = NotCalled
    /\ ret' = NoCall
    /\ UNCHANGED <<planner, seqMu, directVars>>

\* A variant of Times with a fault: an expectation that has left the
\* planner's sequence is appended to it again.
TimesOffered(e, i) ==
    /\ CanLock
    /\ e \in Ptrs
    /\ nset < MaxSetters
    /\ nset' = nset + 1
    /\ exps' = [exps EXCEPT ![e].repeatability = i]
    /\ timesArgs' = [timesArgs EXCEPT ![e] = Append(@, i)]
    /\ expectations' = IF \E k \in 1..Len(expectations) : expectations[k] = e
                       THEN expectations
                       ELSE Append(expectations, e)
    /\ UNCHANGED <<serverVars, mu, clientVars, waitChan>>
    /\ met' = NotCalled
    /\ ret' = NoCall
    /\ UNCHANGED <<planner, seqMu, directVars>>

\* Request.Times(i); Once, Twice and UnlimitedTimes are Times(1), Times(2)
\* and Times(0).
Times(e, i) ==
    /\ Setter(e, [exps[e] EXCEPT !.repeatability = i])
    /\ timesArgs' = [timesArgs EXCEPT ![e] = Append(@, i)]

\* Request.WaitUntil(w).
WaitUntil(e) ==
    /\ Setter(e, [exps[e] EXCEPT !.waitFor = 1])
    /\ UNCHANGED timesArgs

\* Request.After(d).
After(e, d) ==
    /\ Setter(e, [exps[e] EXCEPT !.waitTime = d])
    /\ UNCHANGED timesArgs

\* Request.Run(handle); Return(v) is Run of a handler that returns v.
Run(e, handle) ==
    /\ Setter(e, [exps[e] EXCEPT !.run = handle])
    /\ UNCHANGED timesArgs

\* Request.ReturnCode(code).
ReturnCode(e, code) ==
    /\ Setter(e, [exps[e] EXCEPT !.responseCode = code])
    /\ UNCHANGED timesArgs

\* Request.ReturnHeader(header, value).
ReturnHeader(e, header, value) ==
    /\ Setter(e, [exps[e] EXCEPT !.responseHeader[header] = value])
    /\ UNCHANGED timesArgs

\* Request.WithHeader(header, value).
WithHeader(e, header, value) ==
    /\ Setter(e, [exps[e] EXCEPT !.requestHeader[header] = Exact(value)])
    /\ UNCHANGED timesArgs

\* Request.WithBody(body).
WithBody(e, body) ==
    /\ Setter(e, [exps[e] EXCEPT !.requestBody = Exact(body)])
    /\ UNCHANGED timesArgs

\* ----------------------------------------------------------- environment

\* The test sends a value on the channel given to WaitUntil, or closes it.
Signal(how) ==
    /\ waitChan = "empty"
    /\ \E e \in Ptrs : exps[e].waitFor # 0
    /\ waitChan' = how
    /\ UNCHANGED <<exps, timesArgs, expectations, serverVars, mu, clientVars, nset>>
    /\ met' = NotCalled
    /\ ret' = NoCall
    /\ UNCHANGED <<planner, seqMu, directVars>>

\* ----------------------------------------------------------- specification

ExpectSet == {<<"GET", UriA>>, <<"POST", UriA>>, <<"GET", UriEsc>>}
TimesSet == -1..MaxTimes
ReturnSet == {Handler(HelloBody, Nil)}
HandlerSet ==
    ReturnSet \cup {Handler(EmptyText, BoomText), Handler(EmptyText, PercentErrText)}
DefaultHeaderSet == {[n \in RespHeaderNames |-> IF n = "x-id" THEN <<"0">> ELSE Nil]}

\* The setters, called on any registered expectation.
Configure ==
    \E e \in Ptrs :
        \/ \E i \in TimesSet : Times(e, i)
        \/ WaitUntil(e)
        \/ After(e, 1)
        \/ \E h \in HandlerSet : Run(e, h)
        \/ ReturnCode(e, StatusCreated)
        \/ \E n \in RespHeaderNames : ReturnHeader(e, n, <<"1">>)
        \/ WithHeader(e, "Authorization", TokenT)
        \/ WithBody(e, BodyX)

Serve(cs, rs) ==
    \E c \in cs :
        \/ \E r \in rs : ServeLock(c, r)
        \/ ServeCheck(c)
        \/ ServePlan(c)
        \/ ServeHandle(c)

\* The server used freely: the test registers, configures and checks while
\* requests are being served.
Next ==
    \/ \E x \in ExpectSet : Expect(x[1], x[2])
    \/ \E o \in OptionSet : WithDefaultRequestOptions(o)
    \/ \E h \in DefaultHeaderSet : WithDefaultResponseHeaders(h)
    \/ Configure
    \/ Serve(1..MaxRaceClients, ReqSet)
    \/ ExpectationsWereMet
    \/ \E how \in {"value", "closed"} : Signal(how)

Spec == Init /\ [][Next]_vars

\* The chained setters of a test's setup, called on the expectation that
\* Server.Expect has just returned: no wait, a handler that returns a body.
Chain ==
    LET e == Len(exps)
    IN \/ \E i \in 0..MaxTimes : Times(e, i)
       \/ \E h \in ReturnSet : Run(e, h)
       \/ ReturnCode(e, StatusCreated)

\* The expectations and the requests of the test: plain paths, with
\* requests that differ and still match the same expectation.
ScriptExpectSet == {x \in ExpectSet : x[2] = UriA}
ScriptReqSet == {r \in ReqSet : r.uri = UriA}

\* A test that sets the server up and only then lets the clients send their
\* requests; the requests are served concurrently.
ScriptNext ==
    \/ /\ Arrived = {}
       /\ \/ \E x \in ScriptExpectSet : Expect(x[1], x[2])
          \/ \E o \in OptionSet : WithDefaultRequestOptions(o)
          \/ Chain
    \/ Serve(Clients, ScriptReqSet)

SpecScript == Init /\ [][ScriptNext]_vars

\* A test that registers, serves, resets and registers again, checks the
\* expectations and changes the planner, in any order.
LifecycleNext ==
    \/ \E x \in ScriptExpectSet : Expect(x[1], x[2])
    \/ Chain
    \/ Serve(1..MaxRaceClients, ScriptReqSet)
    \/ ExpectationsWereMet
    \/ ResetExpectations
    \/ \E p \in Planners : WithPlanner(p)

SpecLifecycle == Init /\ [][LifecycleNext]_vars

\* ------------------------------------------------- the planner on its own

\* The expectations a test of the planner prepares by hand: the plain ones
\* with a repeat count, and ones with a header and a body matcher, any of
\* which may be a matcher.Fn whose function panics.
UriMatcherSet == {Exact(UriA), Fn(UriA)}
HeaderMatcherSet == {NoMatcher, Exact(TokenT), Exact(BodyX), Fn(TokenT)}
BodyMatcherSet == {NoMatcher, Exact(BodyX), Fn(BodyX)}

PreparedSet ==
    {[NewRequest(x[1], x[2]) EXCEPT !.repeatability = i] : x \in ExpectSet, i \in 0..MaxTimes}
    \cup {[NewRequest(m, UriA) EXCEPT !.requestURI = u,
                                      !.requestHeader = [n \in ReqHeaderNames |-> h],
                                      !.requestBody = b,
                                      !.repeatability = 1] :
              m \in {"POST"}, u \in UriMatcherSet, h \in HeaderMatcherSet,
              b \in BodyMatcherSet}

\* sequence.Expect called by a test on a planner of its own, with an
\* expectation it has prepared.
SequenceExpect(e) ==
    /\ SeqCanLock
    /\ Len(exps) < MaxExpect
    /\ exps' = Append(exps, e)
    /\ timesArgs' = Append(timesArgs, <<e.repeatability>>)
    /\ expectations' = PlannerExpect(expectations, Len(exps) + 1)
    /\ UNCHANGED <<serverVars, mu, clientVars, waitChan, nset, planner, seqMu, directVars>>
    /\ met' = NotCalled
    /\ ret' = NoCall

\* sequence.Plan called by a test: the request, the matchers called on the
\* head, the outcome, and the planner it leaves.
SequencePlan(r) ==
    /\ SeqCanLock
    /\ LET p == Plan(expectations, exps, r)
       IN /\ ret' = [call |-> "Plan", req |-> r, expected |-> p.expected, err |-> p.err,
                     panic |-> p.panic,
                     calls |-> IF expectations = <<>> THEN <<>>
                               ELSE MatchRequestRun(exps[Head(expectations)], r).calls]
          /\ expectations' = p.expectations
          /\ exps' = p.heap
          /\ seqMu' = PlanUnlock(p)
          /\ UNCHANGED directVars
    /\ UNCHANGED <<timesArgs, serverVars, mu, clientVars, waitChan, nset, planner>>
    /\ met' = NotCalled

\* sequence.Reset called by a test.
SequenceReset ==
    /\ SeqCanLock
    /\ expectations' = PlannerReset(expectations)
    /\ UNCHANGED <<exps, timesArgs, serverVars, mu, clientVars, waitChan, nset, planner,
                   seqMu, directVars>>
    /\ met' = NotCalled
    /\ ret' = NoCall

\* What sequence.Remain returns: s.expectations. (RemainWithoutHead: the
\* slice without its first element.)
RemainWithoutHead(seq) == IF seq = <<>> THEN seq ELSE Tail(seq)

Remain(seq) == seq

\* sequence.Remain called by a test.
SequenceRemain ==
    /\ SeqCanLock
    /\ ret' = [call |-> "Remain", value |-> Remain(expectations)]
    /\ UNCHANGED <<exps, timesArgs, expectations, serverVars, mu, clientVars, waitChan, nset,
                   planner, seqMu, directVars>>
    /\ met' = NotCalled

PlannerNext ==
    \/ \E e \in PreparedSet : SequenceExpect(e)
    \/ \E r \in ReqSet : SequencePlan(r)
    \/ SequenceReset
    \/ SequenceRemain

SpecPlanner == Init /\ [][PlannerNext]_vars

\* ------------------------------- Fulfilled after Plan (the later revision)

\* In the later revision of the server an expectation has a mutex of its own
\* (newRequestExpectation), the planner only decides whether the head stays,
\* and ServeHTTP calls Fulfilled on the expectation Plan returned.

\* requestExpectation.RemainTimes.
RemainTimes(heap, r) == heap[r].repeatability

\* planner.trackRepeatable: the head stays when it is unlimited or has more
\* than one call left.
trackRepeatable(heap, r) ==
    LET t == RemainTimes(heap, r)
    IN IF t = 0 THEN TRUE ELSE t > 1

\* requestExpectation.Fulfilled.
Fulfilled(heap, r) ==
    [heap EXCEPT ![r].repeatability = IF @ > 0 THEN @ - 1 ELSE @,
                 ![r].totalCalls = @ + 1]

\* nextExpectations of the later revision: the head, which stays in the
\* sequence when trackRepeatable says so.
nextExpectationsTracked(expectedRequests, heap) ==
    LET r == Head(expectedRequests)
    IN IF trackRepeatable(heap, r)
       THEN [expected |-> r, expectations |-> expectedRequests]
       ELSE [expected |-> r, expectations |-> Tail(expectedRequests)]

\* The expectation's own mutex is free: no request is inside its Handle.
\* The other methods that take it are single steps of the model.
LockerFree(e) == ~\E c \in Clients : pc[c] = "handling" /\ expected[c] = e

\* ServeHTTP, third part: s.planner.Plan(r) and the failure response for its
\* error. The planner is not empty here: IsEmpty was asked under the same
\* hold of s.mu.
ServePlanTracked(c) ==
    /\ pc[c] = "checked"
    /\ SeqCanLock
    /\ LET err == MatchRequest(exps[Head(expectations)], req[c])
           n == nextExpectationsTracked(expectations, exps)
       IN IF err # Nil
          THEN /\ failResponsef(c, err, <<>>)
               /\ pc' = [pc EXCEPT ![c] = "done"]
               /\ mu' = 0
               /\ UNCHANGED <<expectations, expected>>
          ELSE /\ expectations' = n.expectations
               /\ expected' = [expected EXCEPT ![c] = n.expected]
               /\ pc' = [pc EXCEPT ![c] = "planned"]
               /\ UNCHANGED <<mu, resp, reported>>
    /\ UNCHANGED <<exps, timesArgs, serverVars, req, waitChan, nset, planner, seqMu, directVars>>
    /\ met' = NotCalled
    /\ ret' = NoCall

\* ServeHTTP, fourth part: expected.Fulfilled() and the log of the request,
\* which holds the expectation itself.
ServeFulfilled(c) ==
    /\ pc[c] = "planned"
    /\ LockerFree(expected[c])
    /\ exps' = Fulfilled(exps, expected[c])
    /\ Requests' = Append(Requests, expected[c])
    /\ pc' = [pc EXCEPT ![c] = "fulfilled"]
    /\ UNCHANGED <<timesArgs, expectations, defaultRequestOptions, defaultResponseHeader,
                   mu, req, expected, resp, reported, waitChan, nset, planner, seqMu, directVars>>
    /\ met' = NotCalled
    /\ ret' = NoCall

\* requestExpectation.Handle takes the expectation's mutex; ServeHandle is
\* the rest of it.
ServeHandleLock(c) ==
    /\ pc[c] = "fulfilled"
    /\ LockerFree(expected[c])
    /\ pc' = [pc EXCEPT ![c] = "handling"]
    /\ UNCHANGED <<exps, timesArgs, expectations, serverVars, mu, req, expected, resp,
                   reported, waitChan, nset, planner, seqMu, directVars>>
    /\ met' = NotCalled
    /\ ret' = NoCall

\* requestExpectation.Times(i uint), called by the test at any moment: it
\* takes the expectation's mutex, not the server's.
TimesTracked(e, i) ==
    /\ LockerFree(e)
    /\ Len(timesArgs[e]) < MaxTimesCalls
    /\ exps' = [exps EXCEPT ![e].repeatability = i]
    /\ timesArgs' = [timesArgs EXCEPT ![e] = Append(@, i)]
    /\ UNCHANGED <<expectations, serverVars, mu, clientVars, waitChan, nset, planner, seqMu, directVars>>
    /\ met' = NotCalled
    /\ ret' = NoCall

TrackedNext ==
    \/ \E x \in ScriptExpectSet : Expect(x[1], x[2])
    \/ \E e \in Ptrs, i \in 0..MaxTimes : TimesTracked(e, i)
    \/ \E c \in 1..MaxRaceClients :
          \/ \E r \in ScriptReqSet : ServeLock(c, r)
          \/ ServeCheck(c)
          \/ ServePlanTracked(c)
          \/ ServeFulfilled(c)
          \/ ServeHandleLock(c)
          \/ ServeHandle(c)

SpecTracked == Init /\ [][TrackedNext]_vars

\* ------------------------------------------------ package value on its own

\* The bodies a test builds a request with: whole, partly read already,
\* failing on Read, failing on Close.
BodySet ==
    UNION {{Reader(d, p, f) : p \in 0..Len(d), f \in {"no", "read", "close"}} :
              d \in {EmptyText, BodyX, HelloBody}}

\* The test builds its request.
BuildRequest(s) ==
    /\ ret = NoCall
    /\ rBody' = s
    /\ ret' = [call |-> "Build", n |-> 0]
    /\ met' = NotCalled
    /\ UNCHANGED <<exps, timesArgs, expectations, serverVars, mu, clientVars, waitChan, nset,
                   planner, seqMu, handleVars, goVars>>

\* The test calls value.GetBody(r), as the body matcher does.
CallGetBody ==
    /\ ret.call \in {"Build", "GetBody"}
    /\ ret.n < MaxReads
    /\ LET got == GetBodyOf(rBody)
       IN /\ rBody' = got.Body
          /\ ret' = [call |-> "GetBody", n |-> ret.n + 1, body |-> got.body, err |-> got.err]
    /\ met' = NotCalled
    /\ UNCHANGED <<exps, timesArgs, expectations, serverVars, mu, clientVars, waitChan, nset,
                   planner, seqMu, handleVars, goVars>>

\* The test reads r.Body itself with io.ReadAll, once, as its last read.
CallReadAll ==
    /\ ret.call \in {"Build", "GetBody"}
    /\ LET rd == ReadAll(rBody)
       IN /\ rBody' = rd.Body
          /\ ret' = [call |-> "ReadAll", n |-> ret.n + 1, body |-> rd.bytes, err |-> rd.err]
    /\ met' = NotCalled
    /\ UNCHANGED <<exps, timesArgs, expectations, serverVars, mu, clientVars, waitChan, nset,
                   planner, seqMu, handleVars, goVars>>

\* The test is over; the next one starts with no request.
EndTest ==
    /\ ret.call \in {"GetBody", "ReadAll"}
    /\ rBody' = NoBody
    /\ ret' = NoCall
    /\ met' = NotCalled
    /\ UNCHANGED <<exps, timesArgs, expectations, serverVars, mu, clientVars, waitChan, nset,
                   planner, seqMu, handleVars, goVars>>

BodyNext ==
    \/ \E s \in BodySet : BuildRequest(s)
    \/ CallGetBody
    \/ CallReadAll
    \/ EndTest

SpecBody == Init /\ [][BodyNext]_vars

\* ------------------------------------------------- handle called directly

\* A test builds one expectation, calls its setters and then its handle
\* with a response writer of its own (TestRequest_Wait,
\* TestRequest_Handle_WriteError). The expectation is a request.Request or
\* the later requestExpectation, whose one field waiter is kept here in the
\* two fields of the record: wait.ForSignal is waitFor # 0 with no
\* duration, wait.ForDuration(d) is waitFor = 0 with waitTime = d, and
\* wait.NoWait is neither.

MaxWaitCalls == 2
MaxSleep == 2
WriteErrText == <<"write error">>
CtxErrText == <<"context canceled">>

\* The rest of the model and of the other direct tests stands still.
HandleFrame ==
    /\ met' = NotCalled
    /\ ret' = NoCall
    /\ UNCHANGED <<exps, timesArgs, expectations, serverVars, mu, clientVars, nset,
                   planner, seqMu, bodyVars, goVars>>

\* The assignment of WaitUntil: Request.WaitUntil sets waitFor and leaves
\* waitTime; requestExpectation.WaitUntil replaces the waiter.
SetWaitUntil(kind, r) ==
    IF kind = OldKind THEN [r EXCEPT !.waitFor = 1]
    ELSE [r EXCEPT !.waitFor = 1, !.waitTime = 0]

\* The assignment of After: Request.After sets waitTime and leaves waitFor;
\* requestExpectation.After replaces the waiter.
SetAfter(kind, r, d) ==
    IF kind = OldKind THEN [r EXCEPT !.waitTime = d]
    ELSE [r EXCEPT !.waitFor = 0, !.waitTime = d]

\* NewRequest or newRequestExpectation, and the writer the test builds.
NewExpectation(kind, werr) ==
    /\ hnd.at = "new"
    /\ hr' = NewRequest("GET", UriA)
    /\ waitCalls' = <<>>
    /\ hnd' = [NoHandle EXCEPT !.kind = kind, !.at = "setup", !.writeErr = werr]
    /\ UNCHANGED waitChan
    /\ HandleFrame

\* The test calls WaitUntil(ch) on its expectation.
DirectWaitUntil ==
    /\ hnd.at = "setup"
    /\ Len(waitCalls) < MaxWaitCalls
    /\ hr' = SetWaitUntil(hnd.kind, hr)
    /\ waitCalls' = Append(waitCalls, "WaitUntil")
    /\ UNCHANGED <<hnd, waitChan>>
    /\ HandleFrame

\* The test calls After(d) on its expectation.
DirectAfter(d) ==
    /\ hnd.at = "setup"
    /\ Len(waitCalls) < MaxWaitCalls
    /\ hr' = SetAfter(hnd.kind, hr, d)
    /\ waitCalls' = Append(waitCalls, "After")
    /\ UNCHANGED <<hnd, waitChan>>
    /\ HandleFrame

\* The test calls Run(handle) on its expectation, once.
DirectRun(handle) ==
    /\ hnd.at = "setup"
    /\ hr.run = Handler(EmptyText, Nil)
    /\ hr' = [hr EXCEPT !.run = handle]
    /\ UNCHANGED <<waitCalls, hnd, waitChan>>
    /\ HandleFrame

\* The test calls ReturnHeader(header, value) on its expectation, once.
DirectReturnHeader(header, value) ==
    /\ hnd.at = "setup"
    /\ hr.responseHeader = NoHeaders(RespHeaderNames)
    /\ hr' = [hr EXCEPT !.responseHeader[header] = value]
    /\ UNCHANGED <<waitCalls, hnd, waitChan>>
    /\ HandleFrame

\* The test calls handle(w, req, defaultHeaders): the call reaches its wait.
CallHandle(defaultHeaders) ==
    /\ hnd.at = "setup"
    /\ hnd' = [hnd EXCEPT !.at = "wait", !.defaults = defaultHeaders]
    /\ UNCHANGED <<hr, waitCalls, waitChan>>
    /\ HandleFrame

\* The test sends a value on the channel it gave to WaitUntil, or closes it.
DirectSignal(how) ==
    /\ hnd.at \in {"setup", "wait"}
    /\ \E i \in 1..Len(waitCalls) : waitCalls[i] = "WaitUntil"
    /\ waitChan = "empty"
    /\ waitChan' = how
    /\ UNCHANGED handleVars
    /\ HandleFrame

\* The request's context is cancelled or times out while handle runs.
CancelRequest ==
    /\ hnd.at \notin {"new", "setup", "returned"}
    /\ hnd.ctx = "live"
    /\ hnd' = [hnd EXCEPT !.ctx = "done"]
    /\ UNCHANGED <<hr, waitCalls, waitChan>>
    /\ HandleFrame

\* The wait of handle is on the channel: Request.handle asks waitFor != nil
\* first; the later waiter is wait.ForSignal.
WaitsOnChannel(r) == r.waitFor # 0

\* The receive from the channel returns: it holds a value, which is taken,
\* or it is closed.
HandleReceive ==
    /\ hnd.at = "wait"
    /\ WaitsOnChannel(hr)
    /\ waitChan \in {"value", "closed"}
    /\ waitChan' = IF waitChan = "value" THEN "empty" ELSE waitChan
    /\ hnd' = [hnd EXCEPT !.at = "run", !.waited = "channel"]
    /\ UNCHANGED <<hr, waitCalls>>
    /\ HandleFrame

\* time.Sleep(waitTime), one unit of time passing.
HandleSleep ==
    /\ hnd.at = "wait"
    /\ ~WaitsOnChannel(hr)
    /\ hnd.slept < hr.waitTime
    /\ hnd' = [hnd EXCEPT !.slept = @ + 1]
    /\ UNCHANGED <<hr, waitCalls, waitChan>>
    /\ HandleFrame

\* time.Sleep(waitTime) returns: the whole duration has passed.
HandleSleepOver ==
    /\ hnd.at = "wait"
    /\ ~WaitsOnChannel(hr)
    /\ hnd.slept = hr.waitTime
    /\ hnd' = [hnd EXCEPT !.at = "run", !.waited = "sleep"]
    /\ UNCHANGED <<hr, waitCalls, waitChan>>
    /\ HandleFrame

\* requestExpectation.Handle gives req.Context() to its waiter and returns
\* the waiter's error before the handler runs. The waiters are those of
\* go.nhat.io/wait: with the context done, Wait can return the context's
\* error instead of waiting on.
HandleWaitError ==
    /\ hnd.at = "wait"
    /\ hnd.kind = LaterKind
    /\ hnd.ctx = "done"
    /\ hnd' = [hnd EXCEPT !.at = "returned", !.waited = "context", !.err = CtxErrText]
    /\ UNCHANGED <<hr, waitCalls, waitChan>>
    /\ HandleFrame

\* What handle returns after w.Write(body). (WriteReturnNil: the error of
\* the write is dropped.)
WriteReturnNil(werr) == Nil

WriteReturn(werr) == werr

\* The handler is called. On its error FailResponse writes status 500 and
\* the error, and handle returns the error.
HandleRun ==
    /\ hnd.at = "run"
    /\ IF hr.run.err # Nil
       THEN hnd' = [hnd EXCEPT !.at = "returned",
                               !.w = FailResponse(hr.run.err),
                               !.wrote = <<"WriteHeader", "Write">>,
                               !.err = hr.run.err]
       ELSE hnd' = [hnd EXCEPT !.at = "headers"]
    /\ UNCHANGED <<hr, waitCalls, waitChan>>
    /\ HandleFrame

\* The loop over mergeHeaders(...) with w.Header().Set(key, val).
HandleSetHeaders ==
    /\ hnd.at = "headers"
    /\ \E h \in mergeHeaders(hr.responseHeader, hnd.defaults) :
          hnd' = [hnd EXCEPT !.at = "status", !.w.header = h,
                             !.wrote = Append(@, "Header.Set")]
    /\ UNCHANGED <<hr, waitCalls, waitChan>>
    /\ HandleFrame

\* w.WriteHeader(responseCode).
HandleWriteHeader ==
    /\ hnd.at = "status"
    /\ hnd' = [hnd EXCEPT !.at = "body", !.w.status = hr.responseCode,
                          !.wrote = Append(@, "WriteHeader")]
    /\ UNCHANGED <<hr, waitCalls, waitChan>>
    /\ HandleFrame

\* w.Write(body) and the return of its error.
HandleWrite ==
    /\ hnd.at = "body"
    /\ hnd' = [hnd EXCEPT !.at = "returned", !.w.body = hr.run.body,
                          !.wrote = Append(@, "Write"),
                          !.err = WriteReturn(hnd.writeErr)]
    /\ UNCHANGED <<hr, waitCalls, waitChan>>
    /\ HandleFrame

\* The test is over; the next one starts from nothing.
HandleTestOver ==
    /\ hnd.at = "returned"
    /\ hr' = NewRequest("GET", UriA)
    /\ waitCalls' = <<>>
    /\ hnd' = NoHandle
    /\ waitChan' = "empty"
    /\ HandleFrame

HandleNext ==
    \/ \E kind \in {OldKind, LaterKind}, werr \in {Nil, WriteErrText} :
          NewExpectation(kind, werr)
    \/ DirectWaitUntil
    \/ \E d \in 1..MaxSleep : DirectAfter(d)
    \/ \E handle \in {Handler(HelloBody, Nil), Handler(EmptyText, BoomText)} :
          DirectRun(handle)
    \/ DirectReturnHeader("etag", <<"1">>)
    \/ \E dh \in DefaultHeaderSet \cup {NoHeaders(RespHeaderNames)} : CallHandle(dh)
    \/ \E how \in {"value", "closed"} : DirectSignal(how)
    \/ CancelRequest
    \/ HandleReceive
    \/ HandleSleep
    \/ HandleSleepOver
    \/ HandleWaitError
    \/ HandleRun
    \/ HandleSetHeaders
    \/ HandleWriteHeader
    \/ HandleWrite
    \/ HandleTestOver

SpecHandle == Init /\ [][HandleNext]_vars

\* ------------------------------------------- the planner used concurrently

\* Goroutines that share one sequential planner; each makes one call of
\* Expect, Plan or Reset. A call is its steps: s.mu.Lock(), the reads and
\* the writes of s.expectations in the body, the deferred s.mu.Unlock().

\* The expectations and the requests of the goroutines.
GoPreparedSet ==
    {[NewRequest("GET", UriA) EXCEPT !.repeatability = t] : t \in 0..MaxTimes}
        \cup {[NewRequest("POST", UriA) EXCEPT !.repeatability = 1]}
GoReqSet == {Req(m, UriA, Nil, EmptyText, FALSE) : m \in {"GET", "POST"}}

\* The goroutine can make its call: the goroutines are numbered in the order
\* of their calls.
GoCanCall(g) ==
    /\ gr[g].at = "idle"
    /\ \A k \in 1..(g - 1) : gr[k].at # "idle"

GoFrame ==
    /\ met' = NotCalled
    /\ ret' = NoCall
    /\ UNCHANGED <<serverVars, mu, clientVars, waitChan, nset, planner, bodyVars, handleVars>>

\* The call in program order: what it does to the planner when nothing
\* runs between its lock and its unlock, and what it returns.
Sequential(g, state) ==
    IF g.op = "Expect"
    THEN [NoOutcome EXCEPT !.expectations = PlannerExpect(state.seq, g.ptr),
                           !.heap = state.heap]
    ELSE IF g.op = "Reset"
    THEN [NoOutcome EXCEPT !.expectations = PlannerReset(state.seq), !.heap = state.heap]
    ELSE Plan(state.seq, state.heap, g.req)

\* A goroutine prepares an expectation and calls Expect with it.
GoExpect(g, e) ==
    /\ GoCanCall(g)
    /\ Len(exps) < MaxExpect
    /\ exps' = Append(exps, e)
    /\ timesArgs' = Append(timesArgs, <<e.repeatability>>)
    /\ lin' = [lin EXCEPT !.heap = Append(@, e)]
    /\ gr' = [gr EXCEPT ![g] = [NoGo EXCEPT !.op = "Expect", !.at = "lock",
                                           !.ptr = Len(exps) + 1]]
    /\ UNCHANGED <<expectations, seqMu>>
    /\ GoFrame

\* A goroutine calls Plan with a request.
GoPlan(g, r) ==
    /\ GoCanCall(g)
    /\ gr' = [gr EXCEPT ![g] = [NoGo EXCEPT !.op = "Plan", !.at = "lock", !.req = r]]
    /\ UNCHANGED <<exps, timesArgs, expectations, seqMu, lin>>
    /\ GoFrame

\* A goroutine calls Reset.
GoReset(g) ==
    /\ GoCanCall(g)
    /\ gr' = [gr EXCEPT ![g] = [NoGo EXCEPT !.op = "Reset", !.at = "lock"]]
    /\ UNCHANGED <<exps, timesArgs, expectations, seqMu, lin>>
    /\ GoFrame

\* s.mu.Lock() returns: the mutex was free. The calls take effect, one
\* after the other, in the order of their locks: lin follows that order.
GoLock(g) ==
    /\ gr[g].at = "lock"
    /\ SeqCanLock
    /\ seqMu' = 1
    /\ gr' = [gr EXCEPT ![g].at = "body", ![g].want = Sequential(gr[g], lin)]
    /\ lin' = [seq |-> gr'[g].want.expectations, heap |-> gr'[g].want.heap]
    /\ UNCHANGED <<exps, timesArgs, expectations>>
    /\ GoFrame

\* Expect, append(s.expectations, expect): the slice is read.
ExpectRead(g) ==
    /\ gr[g].at = "body"
    /\ gr[g].op = "Expect"
    /\ gr' = [gr EXCEPT ![g].at = "write", ![g].local = PlannerExpect(expectations, gr[g].ptr)]
    /\ UNCHANGED <<exps, timesArgs, expectations, seqMu, lin>>
    /\ GoFrame

\* Plan, MatchRequest(s.expectations[0], req): the index panics on an empty
\* slice, an error of the match is returned.
PlanMatch(g) ==
    /\ gr[g].at = "body"
    /\ gr[g].op = "Plan"
    /\ IF expectations = <<>>
       THEN gr' = [gr EXCEPT ![g].at = "unlock", ![g].result.panic = TRUE]
       ELSE LET err == MatchRequest(exps[Head(expectations)], gr[g].req)
            IN IF err # Nil
               THEN gr' = [gr EXCEPT ![g].at = "unlock", ![g].result.err = err]
               ELSE gr' = [gr EXCEPT ![g].at = "next"]
    /\ UNCHANGED <<exps, timesArgs, expectations, seqMu, lin>>
    /\ GoFrame

\* Plan, nextExpectations(s.expectations): the slice is read, the head's
\* count is lowered. A slice another call has emptied meanwhile makes the
\* index panic.
PlanNextExpectations(g) ==
    /\ gr[g].at = "next"
    /\ IF expectations = <<>>
       THEN /\ gr' = [gr EXCEPT ![g].at = "unlock", ![g].result.panic = TRUE]
            /\ UNCHANGED exps
       ELSE LET n == nextExpectations(expectations, exps)
            IN /\ exps' = n.heap
               /\ gr' = [gr EXCEPT ![g].at = "write", ![g].local = n.expectations,
                                   ![g].result.expected = n.expected]
    /\ UNCHANGED <<timesArgs, expectations, seqMu, lin>>
    /\ GoFrame

\* Expect and Plan: s.expectations is assigned.
GoWrite(g) ==
    /\ gr[g].at = "write"
    /\ expectations' = gr[g].local
    /\ gr' = [gr EXCEPT ![g].at = "unlock"]
    /\ UNCHANGED <<exps, timesArgs, seqMu, lin>>
    /\ GoFrame

\* Reset: s.expectations = nil.
ResetWrite(g) ==
    /\ gr[g].at = "body"
    /\ gr[g].op = "Reset"
    /\ expectations' = PlannerReset(expectations)
    /\ gr' = [gr EXCEPT ![g].at = "unlock"]
    /\ UNCHANGED <<exps, timesArgs, seqMu, lin>>
    /\ GoFrame

\* The deferred s.mu.Unlock() and the return.
GoUnlock(g) ==
    /\ gr[g].at = "unlock"
    /\ seqMu' = 0
    /\ gr' = [gr EXCEPT ![g].at = "returned"]
    /\ UNCHANGED <<exps, timesArgs, expectations, lin>>
    /\ GoFrame

\* All the goroutines have returned; the next test starts from nothing.
GoTestOver ==
    /\ \A g \in Clients : gr[g].at = "returned"
    /\ gr' = [g \in Clients |-> NoGo]
    /\ lin' = [seq |-> <<>>, heap |-> <<>>]
    /\ exps' = <<>>
    /\ timesArgs' = <<>>
    /\ expectations' = <<>>
    /\ UNCHANGED seqMu
    /\ GoFrame

ConcurrentNext ==
    \/ \E g \in Clients :
          \/ \E e \in GoPreparedSet : GoExpect(g, e)
          \/ \E r \in GoReqSet : GoPlan(g, r)
          \/ GoReset(g)
          \/ GoLock(g)
          \/ ExpectRead(g)
          \/ PlanMatch(g)
          \/ PlanNextExpectations(g)
          \/ GoWrite(g)
          \/ ResetWrite(g)
          \/ GoUnlock(g)
    \/ GoTestOver

SpecConcurrent == Init /\ [][ConcurrentNext]_vars

\* ---------------------------------------- a response writer that can fail

\* What goes to the client of a writer whose Write returns werr: the status
\* and the headers, and the body when the write is done.
Written(r, werr) == IF werr = Nil THEN r ELSE [r EXCEPT !.body = Nil]

\* A variant of ServeHandleWrite with a fault: a request whose Handle
\* returns an error is taken back, out of the log and off the call count.
ServeHandleWriteTakenBack(c, werr) ==
    /\ pc[c] = "handling"
    /\ LET e == exps[expected[c]]
           err == IF e.run.err # Nil THEN e.run.err ELSE WriteReturn(werr)
       IN /\ WaitOver(e)
          /\ waitChan' = IF e.waitFor # 0 /\ waitChan = "value" THEN "empty" ELSE waitChan
          /\ IF e.run.err # Nil
             THEN resp' = [resp EXCEPT ![c] = Written(FailResponse(e.run.err), werr)]
             ELSE \E h \in mergeHeaders(e.responseHeader, defaultResponseHeader) :
                     resp' = [resp EXCEPT ![c] =
                                 Written([status |-> e.responseCode, header |-> h,
                                          body |-> e.run.body], werr)]
          /\ reported' = IF err # Nil THEN Append(reported, NoErrorReport(err)) ELSE reported
          /\ exps' = IF err # Nil
                     THEN [exps EXCEPT ![expected[c]].totalCalls = @ - 1]
                     ELSE exps
          /\ Requests' = IF err # Nil THEN SubSeq(Requests, 1, Len(Requests) - 1) ELSE Requests
    /\ pc' = [pc EXCEPT ![c] = "done"]
    /\ mu' = 0
    /\ UNCHANGED <<timesArgs, expectations, defaultRequestOptions, defaultResponseHeader,
                   req, expected, nset>>
    /\ met' = NotCalled
    /\ ret' = NoCall
    /\ UNCHANGED <<planner, seqMu, directVars>>

\* ServeHTTP, last part, with a ResponseWriter whose Write returns werr:
\* the wait, the handler, FailResponse for its error (the error of that
\* write is dropped) or the headers, the status and w.Write(body), whose
\* error handle returns; require.NoError; the deferred s.mu.Unlock(). With
\* werr = Nil it is ServeHandle.
ServeHandleWrite(c, werr) ==
    /\ pc[c] = "handling"
    /\ LET e == exps[expected[c]]
           err == IF e.run.err # Nil THEN e.run.err ELSE WriteReturn(werr)
       IN /\ WaitOver(e)
          /\ waitChan' = IF e.waitFor # 0 /\ waitChan = "value" THEN "empty" ELSE waitChan
          /\ IF e.run.err # Nil
             THEN resp' = [resp EXCEPT ![c] = Written(FailResponse(e.run.err), werr)]
             ELSE \E h \in mergeHeaders(e.responseHeader, defaultResponseHeader) :
                     resp' = [resp EXCEPT ![c] =
                                 Written([status |-> e.responseCode, header |-> h,
                                          body |-> e.run.body], werr)]
          /\ reported' = IF err # Nil THEN Append(reported, NoErrorReport(err)) ELSE reported
    /\ pc' = [pc EXCEPT ![c] = "done"]
    /\ mu' = 0
    /\ UNCHANGED <<exps, timesArgs, expectations, serverVars, req, expected, nset>>
    /\ met' = NotCalled
    /\ ret' = NoCall
    /\ UNCHANGED <<planner, seqMu, directVars>>

\* A test whose clients may have a connection on which every write fails.
WriteErrorNext ==
    \/ \E x \in ScriptExpectSet : Expect(x[1], x[2])
    \/ \E e \in Ptrs :
          \/ \E i \in 0..MaxTimes : Times(e, i)
          \/ \E h \in HandlerSet : Run(e, h)
    \/ \E c \in 1..MaxRaceClients :
          \/ \E r \in ScriptReqSet : ServeLock(c, r)
          \/ ServeCheck(c)
          \/ ServePlan(c)
          \/ \E werr \in {Nil, WriteErrText} : ServeHandleWrite(c, werr)

SpecWriteError == Init /\ [][WriteErrorNext]_vars

\* ------------------------------------------------- requests under fairness

\* Request.WithHeader(header, matcher.Fn(...)) with a function that panics.
WithHeaderFn(e, header, value) ==
    /\ Setter(e, [exps[e] EXCEPT !.requestHeader[header] = Fn(value)])
    /\ UNCHANGED timesArgs

\* A test on every path of ServeHTTP: expectations with a wait, a failing
\* handler or a panicking matcher, writers that fail, requests to an empty
\* planner and requests that do not match.
LiveNext ==
    \/ \E x \in ScriptExpectSet : Expect(x[1], x[2])
    \/ \E e \in Ptrs :
          \/ WaitUntil(e)
          \/ \E h \in HandlerSet : Run(e, h)
          \/ WithHeaderFn(e, "Authorization", TokenT)
    \/ \E how \in {"value", "closed"} : Signal(how)
    \/ \E c \in 1..MaxRaceClients :
          \/ \E r \in ScriptReqSet : ServeLock(c, r)
          \/ ServeCheck(c)
          \/ ServePlan(c)
          \/ \E werr \in {Nil, WriteErrText} : ServeHandleWrite(c, werr)

\* ServePlan(c) can be taken: past these two guards it gives every variable
\* a value on each of its branches.
ServePlanEnabled(c) == pc[c] = "checked" /\ SeqCanLock

\* The goroutine that holds s.mu takes its next step when it can (the
\* others are blocked in Lock), and the test sends on the channel it gave
\* to WaitUntil: the wait ends. The condition on ServePlan(c) is
\* WF_vars(ServePlan(c)) with its enabling condition written out.
LiveFairness ==
    /\ \A c \in 1..MaxRaceClients :
          /\ WF_vars(ServeCheck(c))
          /\ []<>(~ServePlanEnabled(c)) \/ []<><<ServePlan(c)>>_vars
          /\ WF_vars(\E werr \in {Nil, WriteErrText} : ServeHandleWrite(c, werr))
    /\ WF_vars(\E how \in {"value", "closed"} : Signal(how))

SpecLive == Init /\ [][LiveNext]_vars /\ LiveFairness

\* ------------------------------------------- handlers that call the library

\* The response handler of the request, running inside request.Handle with
\* s.mu held by ServeHTTP, calls Server.Expect ("callExpect") or
\* Request.Times ("callTimes"): the call is made and has not returned.
HandlerCalls(c, what) ==
    /\ pc[c] = "handling"
    /\ WaitOver(exps[expected[c]])
    /\ pc' = [pc EXCEPT ![c] = what]
    /\ UNCHANGED <<exps, timesArgs, expectations, serverVars, mu, req, expected, resp,
                   reported, waitChan, nset>>
    /\ met' = NotCalled
    /\ ret' = NoCall
    /\ UNCHANGED <<planner, seqMu, directVars>>

\* Server.Expect called by the test (who = 0) or by the handler of request
\* who: NewRequest(&s.mu, ...).Once() and s.mu.Lock() both need s.mu; the
\* call returns to its caller, and the handler goes on.
ExpectFrom(who, method, requestURI) ==
    /\ IF who = 0 THEN TRUE ELSE pc[who] = "callExpect"
    /\ CanLock
    /\ SeqCanLock
    /\ Len(exps) < MaxExpect
    /\ LET once == Once(NewRequest(method, requestURI))
           expect == ApplyOptions(once, defaultRequestOptions)
       IN /\ exps' = Append(exps, expect)
          /\ timesArgs' = Append(timesArgs, OptionArgs(defaultRequestOptions))
          /\ expectations' = PlannerExpect(expectations, Len(exps) + 1)
    /\ pc' = IF who = 0 THEN pc ELSE [pc EXCEPT ![who] = "handling"]
    /\ UNCHANGED <<serverVars, mu, req, expected, resp, reported, waitChan, nset>>
    /\ met' = NotCalled
    /\ ret' = NoCall
    /\ UNCHANGED <<planner, seqMu, directVars>>

\* Request.Times(i) called by the test (who = 0) or by the handler of
\* request who: r.lock() is s.mu.Lock().
TimesFrom(who, e, i) ==
    /\ IF who = 0 THEN TRUE ELSE pc[who] = "callTimes"
    /\ CanLock
    /\ e \in Ptrs
    /\ nset < MaxSetters
    /\ nset' = nset + 1
    /\ exps' = [exps EXCEPT ![e].repeatability = i]
    /\ timesArgs' = [timesArgs EXCEPT ![e] = Append(@, i)]
    /\ pc' = IF who = 0 THEN pc ELSE [pc EXCEPT ![who] = "handling"]
    /\ UNCHANGED <<expectations, serverVars, mu, req, expected, resp, reported, waitChan>>
    /\ met' = NotCalled
    /\ ret' = NoCall
    /\ UNCHANGED <<planner, seqMu, directVars>>

\* A test whose handlers may call Server.Expect or a setter of the server
\* that is serving them.
CallbackNext ==
    \/ \E who \in {0} \cup (1..MaxRaceClients), x \in ExpectSet : ExpectFrom(who, x[1], x[2])
    \/ \E who \in {0} \cup (1..MaxRaceClients), e \in Ptrs, i \in 0..MaxTimes :
          TimesFrom(who, e, i)
    \/ \E c \in 1..MaxRaceClients :
          \/ \E r \in ReqSet : ServeLock(c, r)
          \/ ServeCheck(c)
          \/ ServePlan(c)
          \/ \E what \in {"callExpect", "callTimes"} : HandlerCalls(c, what)
          \/ ServeHandle(c)

SpecCallback == Init /\ [][CallbackNext]_vars

\* ------------------------------------------------------------ properties

\* The expectation is in the planner's live sequence.
InSeq(e) == \E i \in 1..Len(expectations) : expectations[i] = e

Last(s) == s[Len(s)]

\* The repeat count the test has configured: the argument of the last repeat
\* setter, 1 (the Once of Server.Expect) when there was none.
ConfiguredTimes(e) == IF timesArgs[e] = <<>> THEN 1 ELSE Last(timesArgs[e])

\* ServeHTTP has returned for the client's request.
Finished(c) == pc[c] \in {"done", "panicked"}

\* The responses the expectation is configured to give.
ConfiguredResponses(e) ==
    {[status |-> exps[e].responseCode, header |-> h, body |-> exps[e].run.body] :
        h \in mergeHeaders(exps[e].responseHeader, defaultResponseHeader)}

\* A 500 response whose body starts with "unexpected request received".
IsUnexpected(r) ==
    /\ r.status = StatusInternalServerError
    /\ r.body # Nil
    /\ Len(r.body) > 0
    /\ Head(r.body) = "unexpected request received: "

\* The i-th request to be served matches the i-th registered expectation,
\* and every expectation is configured for one match.
OneToOne ==
    /\ Len(exps) >= 1
    /\ \A e \in Ptrs : ConfiguredTimes(e) = 1 /\ exps[e].run.err = Nil
    /\ \A c \in Arrived : c <= Len(exps) => MatchRequest(exps[c], req[c]) = Nil

\* C1: with N expectations registered through Server.Expect, each with
\* repeat count 1 and no wait, and requests served one after another of
\* which the i-th matches the i-th expectation, every one of the first N
\* requests gets the response of its own expectation, and a request after
\* them gets a 500 whose body starts with "unexpected request received".
C1_InOrder ==
    OneToOne =>
        \A c \in Clients :
            pc[c] = "done" =>
                IF c <= Len(exps)
                THEN expected[c] = c /\ resp[c] \in ConfiguredResponses(c)
                ELSE expected[c] = 0 /\ IsUnexpected(resp[c])

C1_Witness ==
    /\ OneToOne
    /\ Len(exps) = 2
    /\ \A c \in Clients : pc[c] = "done"
    /\ resp[1] # resp[2]
    /\ resp[2].status = StatusCreated
    /\ IsUnexpected(resp[3])

\* C3: an expectation registered with Times(k), k >= 1, and not configured
\* again is returned by the planner for exactly k matching requests: it is in
\* the live sequence as long as it has been matched fewer than k times, and
\* the k-th match removes it, so that it is never matched more than k times.
C3_TimesK ==
    \A e \in Ptrs :
        (timesArgs[e] # <<>> /\ Last(timesArgs[e]) >= 1) =>
            /\ exps[e].totalCalls <= Last(timesArgs[e])
            /\ InSeq(e) <=> exps[e].totalCalls < Last(timesArgs[e])
            /\ exps[e].repeatability = Last(timesArgs[e]) - exps[e].totalCalls

C3_Witness ==
    \E e \in Ptrs :
        /\ timesArgs[e] # <<>>
        /\ Last(timesArgs[e]) = MaxTimes
        /\ exps[e].totalCalls = MaxTimes
        /\ ~InSeq(e)
        /\ \E c \in Clients :
              /\ pc[c] = "done"
              /\ resp[c].status = StatusInternalServerError
              /\ MatchRequest(exps[e], req[c]) = Nil

\* C5: an expectation created by Server.Expect with no repeat setter and no
\* default request option has repeat count 1: it leaves the planner with its
\* first match, is matched once at most, and when nothing else is registered
\* every request served after the matching one gets a 500 whose body starts
\* with "unexpected request received".
C5_DefaultOnce ==
    \A e \in Ptrs :
        timesArgs[e] = <<>> =>
            /\ exps[e].totalCalls <= 1
            /\ exps[e].repeatability = 1 - exps[e].totalCalls
            /\ InSeq(e) <=> exps[e].totalCalls = 0
            /\ Len(exps) = 1 =>
                  \A c, d \in Clients :
                      (c < d /\ expected[c] = e /\ pc[d] = "done") => IsUnexpected(resp[d])

C5_Witness ==
    /\ Len(exps) = 1
    /\ timesArgs[1] = <<>>
    /\ defaultRequestOptions = <<>>
    /\ expected[1] = 1
    /\ pc[1] = "done"
    /\ pc[2] = "done"
    /\ req[2] = req[1]
    /\ IsUnexpected(resp[2])

\* C2: when the request does not match the head of the sequence, Plan
\* returns an error and changes nothing, whatever stands behind the head: the
\* live sequence, its order and every expectation's counts are as before, no
\* expectation is returned, and the request is answered with a 500.
C2_HeadMismatch ==
    [][\A c \in Clients :
          (/\ pc[c] = "checked"
           /\ pc'[c] # "checked"
           /\ expectations # <<>>
           /\ MatchRequest(exps[Head(expectations)], req[c]) # Nil)
          => /\ expectations' = expectations
             /\ exps' = exps
             /\ Requests' = Requests
             /\ expected'[c] = 0
             /\ pc'[c] = "done"
             /\ resp'[c].status = StatusInternalServerError]_vars

C2_Witness ==
    \E c \in Clients :
        /\ pc[c] = "done"
        /\ expected[c] = 0
        /\ resp[c].status = StatusInternalServerError
        /\ Head(resp[c].body) = "Expected: "
        /\ Len(expectations) >= 2
        /\ MatchRequest(exps[expectations[1]], req[c]) # Nil
        /\ MatchRequest(exps[expectations[2]], req[c]) = Nil

\* C4: an expectation with repeat count 0 (UnlimitedTimes) at the head of the
\* sequence is returned by a match and stays where it is: the match leaves
\* the sequence and the repeat count as they are, and counts one more call.
C4_Unlimited ==
    [][\A c \in Clients :
          (/\ pc[c] = "checked"
           /\ pc'[c] = "handling"
           /\ exps[Head(expectations)].repeatability = 0)
          => /\ expectations' = expectations
             /\ expected'[c] = Head(expectations)
             /\ exps'[Head(expectations)].repeatability = 0
             /\ exps'[Head(expectations)].totalCalls =
                    exps[Head(expectations)].totalCalls + 1]_vars

C4_Witness ==
    \E e \in Ptrs :
        /\ exps[e].repeatability = 0
        /\ exps[e].totalCalls >= 2
        /\ expectations # <<>>
        /\ Head(expectations) = e

\* The message for a request that arrives when the planner is empty.
UnexpectedText(r) ==
    <<"unexpected request received: ", r.method, " ">> \o r.uri
        \o (IF ~r.bodyErr /\ r.body # <<>> THEN <<", body:\n">> \o r.body ELSE <<>>)

\* C6: a request that arrives when the planner is empty is answered with
\* status 500 and the body "unexpected request received: METHOD URI",
\* followed by ", body:" and the body only when the body is not empty and
\* could be read; the same text is given to the test reporter, Plan is not
\* called and the log of matched requests stays as it is.
C6_EmptyPlanner ==
    [][\A c \in Clients :
          (pc[c] = "locked" /\ pc'[c] # "locked" /\ expectations = <<>>)
          => /\ pc'[c] = "done"
             /\ resp'[c].status = StatusInternalServerError
             /\ resp'[c].body = UnexpectedText(req[c])
             /\ reported' = Append(reported, UnexpectedText(req[c]))
             /\ expected'[c] = 0
             /\ exps' = exps
             /\ expectations' = expectations
             /\ Requests' = Requests]_vars

\* C7: when Plan returns an error the request is answered with status 500
\* and the planner's error as the body, the handler is not invoked, no call
\* is counted and nothing is appended to the log of matched requests.
C7_PlanError ==
    [][\A c \in Clients :
          (/\ pc[c] = "checked"
           /\ pc'[c] # "checked"
           /\ Plan(expectations, exps, req[c]).err # Nil)
          => /\ pc'[c] = "done"
             /\ resp'[c].status = StatusInternalServerError
             /\ resp'[c].body = Plan(expectations, exps, req[c]).err
             /\ expected'[c] = 0
             /\ exps' = exps
             /\ Requests' = Requests]_vars

\* An expectation that ExpectationsWereMet has to report.
Unmet(e) == ~(exps[e].repeatability < 1 /\ exps[e].totalCalls >= 1)

RECURSIVE UnmetLines(_)
UnmetLines(s) ==
    IF s = <<>> THEN <<>>
    ELSE (IF Unmet(Head(s))
          THEN <<"- ">> \o ExpectedRequestTimes(exps[Head(s)], exps[Head(s)].totalCalls,
                                                exps[Head(s)].repeatability)
          ELSE <<>>) \o UnmetLines(Tail(s))

\* C8: ExpectationsWereMet returns nil exactly when the planner is empty or
\* every expectation left in it has a remaining count below 1 and at least
\* one call; otherwise it returns one error that lists, in the planner's
\* order, exactly the expectations left that do not satisfy this.
C8_WereMet ==
    met # NotCalled =>
        IF \A i \in 1..Len(expectations) : ~Unmet(expectations[i])
        THEN met = Nil
        ELSE met = NotMetHeader \o UnmetLines(expectations)

C8_Witness ==
    /\ met # NotCalled
    /\ met # Nil
    /\ Len(expectations) = 2
    /\ ~Unmet(expectations[1])
    /\ Unmet(expectations[2])

\* The request is between the start of the planner lookup and the end of
\* Handle.
InCritical(c) == pc[c] \in {"locked", "checked", "handling"}

\* C9: at most one request at a time is between the start of the planner
\* lookup and the end of Handle.
C9_OneAtATime == Cardinality({c \in Clients : InCritical(c)}) <= 1

C9_Witness ==
    \E c, d \in Clients :
        /\ pc[c] = "handling"
        /\ ~WaitOver(exps[expected[c]])
        /\ d # c
        /\ pc[d] = "idle"

\* One expectation with Times(k), 1 <= k < n, and n requests that all match
\* it and have all been served.
RaceOver ==
    /\ Len(exps) = 1
    /\ timesArgs[1] # <<>>
    /\ Last(timesArgs[1]) \in 1..(MaxClients - 1)
    /\ \A c \in Clients : Finished(c) /\ MatchRequest(exps[1], req[c]) = Nil

\* C10: when n > k matching requests race for one expectation with Times(k),
\* exactly k of them get the configured response and the other n - k get a
\* 500, and the expectation ends with k calls and a remaining count of 0.
C10_Race ==
    RaceOver =>
        /\ Cardinality({c \in Clients : resp[c] \in ConfiguredResponses(1)})
              = Last(timesArgs[1])
        /\ Cardinality({c \in Clients : resp[c].status = StatusInternalServerError})
              = MaxClients - Last(timesArgs[1])
        /\ exps[1].totalCalls = Last(timesArgs[1])
        /\ exps[1].repeatability = 0

C10_Witness ==
    /\ RaceOver
    /\ Last(timesArgs[1]) = MaxTimes
    /\ exps[1].totalCalls = MaxTimes
    /\ \E c, d \in Clients : req[c] # req[d]

\* C11: when the handler of the matched expectation returns an error, the
\* response has status 500 and the error text as its body, the configured
\* status code and response headers are not written, and the error comes
\* back to the server, which reports it to the test reporter.
C11_HandlerError ==
    [][\A c \in Clients :
          (/\ pc[c] = "handling"
           /\ pc'[c] = "done"
           /\ exps[expected[c]].run.err # Nil)
          => /\ resp'[c].status = StatusInternalServerError
             /\ resp'[c].body = exps[expected[c]].run.err
             /\ resp'[c].header = NoHeaders(CanonNames)
             /\ reported' = Append(reported, NoErrorReport(exps[expected[c]].run.err))]_vars

\* C12: whatever the planner holds, the empty sequence included, and
\* whatever the request, Plan ends in one of two ways: an expectation and a
\* nil error, or no expectation and an error.
C12_PlanOutcome ==
    ret.call = "Plan" =>
        /\ ~ret.panic
        /\ \/ ret.expected # 0 /\ ret.err = Nil
           \/ ret.expected = 0 /\ ret.err # Nil

\* C13: WithPlanner replaces the planner only when the current planner is
\* empty; when it holds an expectation the call panics with "could not change
\* planner: planner is not empty" and leaves the planner and its
\* expectations as they are.
C13_WithPlanner ==
    [][ret'.call = "WithPlanner" =>
          IF expectations = <<>>
          THEN ret'.panic = Nil /\ planner' = ret'.p
          ELSE /\ ret'.panic = NotEmptyPanic
               /\ planner' = planner
               /\ expectations' = expectations
               /\ exps' = exps]_vars

C13_Witness ==
    /\ ret.call = "WithPlanner"
    /\ ret.panic = NotEmptyPanic
    /\ ret.p # planner
    /\ planner # DefaultPlanner
    /\ expectations # <<>>

\* C14: ResetExpectations leaves the planner and the log of matched requests
\* empty, whatever was pending or partly fulfilled; from then on, until an
\* expectation is registered, the planner and the log stay empty,
\* ExpectationsWereMet returns nil and every request is answered with a 500
\* "unexpected request received".
C14_Reset ==
    [][/\ ret'.call = "ResetExpectations" => expectations' = <<>> /\ Requests' = <<>>
       /\ (expectations = <<>> /\ Requests = <<>> /\ Len(exps') = Len(exps)) =>
             /\ expectations' = <<>>
             /\ Requests' = <<>>
             /\ met' # NotCalled => met' = Nil
             /\ \A c \in Clients :
                   (pc[c] = "locked" /\ pc'[c] # "locked") =>
                       pc'[c] = "done" /\ IsUnexpected(resp'[c])]_vars

C14_Witness ==
    \E e \in Ptrs :
        /\ exps[e].totalCalls >= 1
        /\ exps[e].repeatability >= 1
        /\ expectations = <<>>
        /\ Requests = <<>>
        /\ \E c \in Clients :
              /\ pc[c] = "done"
              /\ IsUnexpected(resp[c])
              /\ MatchRequest(exps[e], req[c]) = Nil

\* The matcher of expectation e that the check named k calls.
MatcherAt(e, k) ==
    IF k = "uri" THEN e.requestURI
    ELSE IF k = "header" THEN e.requestHeader["Authorization"]
    ELSE e.requestBody

\* What the error of a recovered panic starts its message with, per check.
CouldNotMatch(k) ==
    IF k = "uri" THEN "could not match request uri: "
    ELSE IF k = "header" THEN "could not match header: "
    ELSE "could not match body: "

\* Text t ends with text u.
EndsWith(t, u) == Len(t) >= Len(u) /\ SubSeq(t, Len(t) - Len(u) + 1, Len(t)) = u

\* C15: when a custom matcher panics while the URI, a header or the body of
\* a request is matched, Plan returns an ordinary mismatch error whose
\* message is "could not match ...: " and the panic value, no panic leaves
\* Plan, the live sequence and the expectations are as they were, and the
\* planner's mutex is free afterwards, so that later calls proceed.
C15_MatcherPanic ==
    [][\A k \in {"uri", "header", "body"} :
          (/\ ret'.call = "Plan"
           /\ expectations # <<>>
           /\ \E i \in 1..Len(ret'.calls) : ret'.calls[i] = k
           /\ MatcherAt(exps[Head(expectations)], k).kind = "panic")
          => /\ ~ret'.panic
             /\ ret'.expected = 0
             /\ Head(ret'.err) = "Expected: "
             /\ EndsWith(ret'.err, <<"Error: ", CouldNotMatch(k)>> \o PanicText \o <<"\n">>)
             /\ expectations' = expectations
             /\ exps' = exps
             /\ seqMu' = 0]_vars

C15_Witness ==
    /\ ret.call = "Plan"
    /\ ret.calls = <<"uri", "header", "body">>
    /\ expectations # <<>>
    /\ exps[Head(expectations)].requestBody.kind = "panic"
    /\ EndsWith(ret.err, <<"Error: ", CouldNotMatch("body")>> \o PanicText \o <<"\n">>)
    /\ seqMu = 0

\* The place of a matcher's check in the order method, URI, header, body.
Rank(k) == IF k = "uri" THEN 2 ELSE IF k = "header" THEN 3 ELSE 4

\* C19: Plan checks the head in the order method, URI, header, body and
\* stops at the first check that fails: its error is that check's error,
\* no matcher of a later check is called, and with no failing check the
\* request matches.
C19_CheckOrder ==
    (ret.call = "Plan" /\ ~ret.panic) =>
        LET e == IF ret.expected # 0 THEN exps[ret.expected] ELSE exps[Head(expectations)]
            r == ret.req
            checks == <<MatchMethod(e, r), MatchURI(e, r), MatchHeader(e, r), MatchBody(e, r)>>
            bad == {i \in 1..4 : checks[i].err # Nil}
        IN IF bad = {}
           THEN ret.err = Nil /\ ret.expected # 0
           ELSE LET first == CHOOSE i \in bad : \A j \in bad : i <= j
                IN /\ ret.err = checks[first].err
                   /\ ret.expected = 0
                   /\ \A i \in 1..Len(ret.calls) : Rank(ret.calls[i]) <= first
                   /\ \A i, j \in 1..Len(ret.calls) :
                          i < j => Rank(ret.calls[i]) < Rank(ret.calls[j])

C19_Witness ==
    /\ ret.call = "Plan"
    /\ ret.calls = <<"uri", "header">>
    /\ expectations # <<>>
    /\ exps[Head(expectations)].requestHeader["Authorization"] = Exact(BodyX)
    /\ exps[Head(expectations)].requestBody.kind = "panic"
    /\ ret.err = MatchHeader(exps[Head(expectations)], ret.req).err
    /\ ret.err # Nil

\* C16: in every reachable state an expectation's remaining repeat count
\* (repeatability) is not negative.
C16_NonNegative == \A e \in Ptrs : exps[e].repeatability >= 0

\* C17: an expectation's count of fulfilled calls (totalCalls) goes up by
\* exactly one in the step in which a request is matched to it, and is left
\* as it was by every other step: a mismatch, ExpectationsWereMet, a setter,
\* a registration, the handling of a matched request.
C17_Fulfilled ==
    [][\A e \in Ptrs :
          LET matched == \E c \in Clients : /\ pc[c] = "checked"
                                             /\ pc'[c] = "handling"
                                             /\ expected'[c] = e
          IN exps'[e].totalCalls = exps[e].totalCalls + (IF matched THEN 1 ELSE 0)]_vars

C17_Witness ==
    \E e \in Ptrs :
        /\ exps[e].totalCalls = 2
        /\ nset >= 1
        /\ \A c \in 1..MaxRaceClients : pc[c] = "done" /\ expected[c] = e

\* The values map m gives to the names whose canonical form is k.
Given(m, k) == {m[n] : n \in {x \in DOMAIN m : CanonicalMIMEHeaderKey(x) = k /\ m[x] # Nil}}

\* C20: the headers of a successful response are the union, by canonical
\* name, of the server's default response headers and the expectation's:
\* a name that only one of them gives has that value, a name that neither
\* gives is not written, and a name that both give has the expectation's.
C20_MergedHeaders ==
    [][\A c \in Clients :
          (/\ pc[c] = "handling" /\ pc'[c] = "done" /\ exps[expected[c]].run.err = Nil)
          => \A k \in CanonNames :
                LET own == Given(exps[expected[c]].responseHeader, k)
                    def == Given(defaultResponseHeader, k)
                    written == resp'[c].header[k]
                IN /\ own # {} => written \in own
                   /\ (own = {} /\ def # {}) => written \in def
                   /\ (own = {} /\ def = {}) => written = Nil]_vars

C20_Witness ==
    \E c \in Clients :
        /\ pc[c] = "done"
        /\ expected[c] # 0
        /\ resp[c].status = exps[expected[c]].responseCode
        /\ defaultResponseHeader["x-id"] = <<"0">>
        /\ exps[expected[c]].responseHeader["X-Id"] = <<"1">>
        /\ resp[c].header["X-Id"] = <<"1">>
        /\ resp[c].header["Etag"] = Nil

\* C18: every expectation in the planner's live sequence is unlimited by
\* configuration (the last repeat count set on it is 0) or has a remaining
\* count above 0, in every state, the states between the steps of a request
\* and of a setter called meanwhile included.
C18_NotOffered ==
    \A i \in 1..Len(expectations) :
        \/ ConfiguredTimes(expectations[i]) = 0
        \/ exps[expectations[i]].repeatability > 0

C22_SameText ==
    [][\A c \in Clients :
          (/\ pc[c] \in {"locked", "checked", "handling"}
           /\ pc'[c] = "done"
           /\ ~(pc[c] = "handling" /\ exps[expected[c]].run.err = Nil))
          => /\ resp'[c].status = StatusInternalServerError
             /\ resp'[c].body # EmptyText
             /\ reported' = Append(reported, resp'[c].body)]_vars

\* C23: the wait of a handled request ends only because the channel has
\* delivered a value or is closed (a signal wait) or because the whole
\* duration has passed (a fixed wait), also when the request has been
\* cancelled, and the handler runs next.
C23_WaitNotCancelled ==
    [][(hnd.at = "wait" /\ hnd'.at # "wait")
       => /\ hnd'.at = "run"
          /\ \/ WaitsOnChannel(hr) /\ waitChan \in {"value", "closed"}
             \/ ~WaitsOnChannel(hr) /\ hnd.slept = hr.waitTime]_vars

\* C26: when WaitUntil and After have both been called on an expectation,
\* the wait its handle performs is the one of the setter called last.
C26_LastSetterWins ==
    [][(/\ hnd.at = "wait" /\ hnd'.at = "run"
        /\ Len(waitCalls) = 2 /\ waitCalls[1] # waitCalls[2])
       => hnd'.waited = (IF waitCalls[2] = "WaitUntil" THEN "channel" ELSE "sleep")]_vars

\* The writes of a call of handle whose handler returned no error, in order.
WriteOrder == <<"Header.Set", "WriteHeader", "Write">>

\* C27: nothing is written while handle waits or before its handler has
\* returned; after a handler without error the merged headers are set, then
\* the status is written, then the body; and the error of the body's write
\* is what handle returns.
C27_WriteOrder ==
    /\ hnd.at \in {"new", "setup", "wait", "run"}
       => hnd.wrote = <<>> /\ hnd.w = NoResponse
    /\ (hnd.at \in {"headers", "status", "body", "returned"} /\ hr.run.err = Nil
            /\ hnd.waited # "context")
       => /\ hnd.waited \in {"channel", "sleep"}
          /\ \E n \in 0..3 : hnd.wrote = SubSeq(WriteOrder, 1, n)
          /\ Len(hnd.wrote) >= 1
             => hnd.w.header \in mergeHeaders(hr.responseHeader, hnd.defaults)
          /\ Len(hnd.wrote) >= 2 => hnd.w.status = hr.responseCode
          /\ Len(hnd.wrote) < 2 => hnd.w.status = 0
          /\ Len(hnd.wrote) = 3 <=> hnd.at = "returned"
          /\ Len(hnd.wrote) < 3 => hnd.w.body = Nil
          /\ hnd.at = "returned"
             => hnd.w.body = hr.run.body /\ hnd.err = hnd.writeErr

C27_Witness ==
    /\ hnd.at = "returned"
    /\ hnd.waited = "channel"
    /\ hnd.wrote = WriteOrder
    /\ hnd.w.header["Etag"] = <<"1">>
    /\ hnd.w.header["X-Id"] = <<"0">>
    /\ hnd.w.body = HelloBody
    /\ hnd.err = WriteErrText

\* C24: a Plan that returns an expectation has, on its return, raised that
\* expectation's count of calls by one and, unless the expectation is
\* unlimited, lowered its remaining count by one.
C24_PlanFulfils ==
    [][(ret'.call = "Plan" /\ ret'.err = Nil /\ ~ret'.panic)
       => LET e == ret'.expected
          IN /\ exps'[e].totalCalls = exps[e].totalCalls + 1
             /\ exps[e].repeatability # 0
                => exps'[e].repeatability = exps[e].repeatability - 1]_vars

\* No repeat setter has made the expectation unlimited.
NeverUnlimited(e) == \A i \in 1..Len(timesArgs[e]) : timesArgs[e][i] # 0

\* The expectations ExpectationsWereMet is said to leave out: exhausted,
\* never unlimited, called at least once.
LeftOut(e) ==
    /\ exps[e].repeatability < 1
    /\ NeverUnlimited(e)
    /\ exps[e].totalCalls >= 1

RECURSIVE ListedLines(_)
ListedLines(s) ==
    IF s = <<>> THEN <<>>
    ELSE (IF LeftOut(Head(s)) THEN <<>>
          ELSE <<"- ">> \o ExpectedRequestTimes(exps[Head(s)], exps[Head(s)].totalCalls,
                                                exps[Head(s)].repeatability))
         \o ListedLines(Tail(s))

\* C25: the report of ExpectationsWereMet lists every expectation left in
\* the planner, an unlimited one included, but those that are exhausted,
\* were never unlimited and have been called at least once.
C25_OnlyExhaustedLeftOut ==
    met # NotCalled =>
        met = (IF \A i \in 1..Len(expectations) : LeftOut(expectations[i])
               THEN Nil
               ELSE NotMetHeader \o ListedLines(expectations))

\* C28: the log of matched requests gains one entry, at its end, on each
\* step in which Plan succeeds for a request, the copy of the expectation
\* Plan returned; it is emptied by ResetExpectations; no other step, a
\* request failing at the planner included, changes it.
C28_LogPerPlan ==
    [][IF \E c \in Clients : pc[c] = "checked" /\ pc'[c] = "handling"
       THEN \E c \in Clients :
               /\ pc[c] = "checked" /\ pc'[c] = "handling"
               /\ Requests' = Append(Requests, exps'[expected'[c]])
       ELSE IF ret'.call = "ResetExpectations"
       THEN Requests' = <<>>
       ELSE Requests' = Requests]_vars

C28_Witness ==
    /\ Len(Requests) = 2
    /\ req[1].method # req[2].method
    /\ Requests[1].method = req[1].method
    /\ Requests[2].method = req[2].method
    /\ pc[1] = "done" /\ pc[2] = "done"

\* No goroutine is between the lock and the unlock of a call.
Quiet == \A g \in Clients : gr[g].at \in {"idle", "lock", "returned"}

\* C29: under every interleaving of concurrent Plan, Expect and Reset calls
\* on one planner, each call returns what it returns when the calls run one
\* after the other in the order of their locks, and between calls the
\* sequence is the one that order leaves: no appended expectation is lost
\* and none is there twice.
C29_Atomic ==
    /\ \A g \in Clients :
          gr[g].at = "returned"
          => /\ gr[g].result.expected = gr[g].want.expected
             /\ gr[g].result.err = gr[g].want.err
             /\ gr[g].result.panic = gr[g].want.panic
    /\ Quiet => /\ expectations = lin.seq
                /\ exps = lin.heap
                /\ \A i, j \in 1..Len(expectations) :
                      expectations[i] = expectations[j] => i = j

C29_Witness ==
    /\ \A g \in Clients : gr[g].at = "returned"
    /\ gr[1].op = "Expect" /\ gr[2].op = "Expect" /\ gr[3].op = "Plan"
    /\ gr[3].result.expected = 2
    /\ expectations = <<1>>

\* The sequence holds, in the order of their appends, the expectations
\* from some append up to the last one: nothing is missing in between.
InAppendOrder(seq, heap) ==
    seq = <<>> \/ (/\ seq[Len(seq)] = Len(heap)
                   /\ \A i \in 1..(Len(seq) - 1) : seq[i + 1] = seq[i] + 1)

\* C30: after any calls of Expect, Plan and Reset the planner holds, and
\* Remain returns, the expectations appended since the last Reset without
\* those Plan has retired, in the order of their appends: Expect appends at
\* the end, Reset empties, Plan removes nothing or the first element, and
\* Remain changes nothing.
C30_RemainInOrder ==
    [][/\ InAppendOrder(expectations', exps')
       /\ \/ expectations' = expectations
          \/ expectations' = Append(expectations, Len(exps'))
                /\ Len(exps') = Len(exps) + 1 /\ ret'.call = "none"
          \/ expectations' = <<>> /\ ret'.call = "none"
          \/ expectations # <<>> /\ expectations' = Tail(expectations)
                /\ ret'.call = "Plan" /\ ret'.expected = Head(expectations)
       /\ ret'.call = "Remain"
          => ret'.value = expectations /\ expectations' = expectations]_vars

C30_Witness ==
    /\ ret.call = "Remain"
    /\ ret.value = <<2>>
    /\ timesArgs[1] = <<1>>
    /\ exps[1].repeatability = 0

\* C31: an expectation with no header matcher passes the header check for
\* every request and one with no body matcher passes the body check for
\* every request, a request whose body cannot be read included; with
\* neither set, Plan's outcome depends on the method and the URI alone.
C31_UnsetMatches ==
    [][(ret'.call = "Plan" /\ expectations # <<>>)
       => LET e == exps[Head(expectations)]
              r == ret'.req
          IN /\ HeaderMatcherLen(e.requestHeader) = 0 => MatchHeader(e, r).err = Nil
             /\ e.requestBody = NoMatcher => MatchBody(e, r).err = Nil
             /\ (/\ HeaderMatcherLen(e.requestHeader) = 0
                 /\ e.requestBody = NoMatcher
                 /\ MatchMethod(e, r).err = Nil
                 /\ MatchURI(e, r).err = Nil)
                => ret'.err = Nil /\ ret'.expected = Head(expectations)]_vars

C31_Witness ==
    /\ ret.call = "Plan"
    /\ ret.err = Nil
    /\ ret.req = Req("GET", UriA, Nil, BodyX, TRUE)
    /\ ret.expected = 1
    /\ HeaderMatcherLen(exps[1].requestHeader) = 0
    /\ exps[1].requestBody = NoMatcher

\* C32: a call of ExpectationsWereMet changes nothing but its own result:
\* the planner's sequence, every expectation with its counts, the log of
\* matched requests, the server's defaults and the requests being served are
\* after the call what they were before it.
C32_WereMetFrame ==
    [][met' # NotCalled
       => UNCHANGED <<expectations, exps, timesArgs, Requests, defaultRequestOptions,
                      defaultResponseHeader, planner, mu, seqMu, pc, req, expected, resp,
                      reported>>]_vars

C32_Witness ==
    /\ met # NotCalled
    /\ met # Nil
    /\ Len(Requests) = 1
    /\ Len(expectations) = 2
    /\ exps[expectations[1]].totalCalls = 1
    /\ pc[1] = "done"
    /\ pc[2] = "idle"

\* C33: while an unlimited expectation is the head of the sequence, a
\* request is checked against it alone: the request is given the head or
\* fails, no expectation behind the head is returned or counted, the head
\* stays the head, and a request the head does not match is answered with
\* the failure status even when an expectation behind the head matches it.
C33_BehindUnlimited ==
    [][\A c \in Clients :
          (/\ pc[c] = "checked"
           /\ pc'[c] # "checked"
           /\ expectations # <<>>
           /\ exps[Head(expectations)].repeatability = 0)
          => /\ expected'[c] \in {0, Head(expectations)}
             /\ expectations' # <<>> /\ Head(expectations') = Head(expectations)
             /\ \A i \in 2..Len(expectations) :
                   exps'[expectations[i]].totalCalls = exps[expectations[i]].totalCalls
             /\ Len(Requests') > Len(Requests)
                => Requests'[Len(Requests')].method = exps[Head(expectations)].method
             /\ MatchRequest(exps[Head(expectations)], req[c]) # Nil
                => /\ pc'[c] = "done"
                   /\ expected'[c] = 0
                   /\ resp'[c].status = StatusInternalServerError]_vars

C33_Witness ==
    /\ Len(expectations) = 2
    /\ exps[expectations[1]].repeatability = 0
    /\ exps[expectations[1]].totalCalls = 1
    /\ exps[expectations[2]].totalCalls = 0
    /\ pc[1] = "done" /\ expected[1] = expectations[1]
    /\ pc[2] = "done" /\ expected[2] = 0
    /\ resp[2].status = StatusInternalServerError
    /\ MatchRequest(exps[expectations[2]], req[2]) = Nil

\* No request is being dispatched: every client is before ServeHTTP or after
\* its return.
NoDispatch == \A c \in Clients : pc[c] = "idle" \/ Finished(c)

\* C34 as stated: for an expectation whose only Times call is Times(k),
\* k >= 1, the remaining count plus the call count is k in every state in
\* which no request is being dispatched.
C34_CountsAddUp ==
    \A e \in Ptrs :
        (/\ Len(timesArgs[e]) = 1
         /\ timesArgs[e][1] >= 1
         /\ NoDispatch)
        => exps[e].repeatability + exps[e].totalCalls = timesArgs[e][1]

\* C34, amended: when the only Times call, Times(k) with k >= 1, is made
\* before any request has been counted for the expectation, the remaining
\* count plus the call count is k from that call on, in every state.
C34_CountsAddUpFromSetup ==
    [][\A e \in Ptrs :
          (Len(timesArgs'[e]) = 1 /\ timesArgs'[e][1] >= 1)
          => /\ (timesArgs[e] = <<>> /\ exps[e].totalCalls = 0)
                => exps'[e].repeatability + exps'[e].totalCalls = timesArgs'[e][1]
             /\ (/\ timesArgs[e] = timesArgs'[e]
                 /\ exps[e].repeatability + exps[e].totalCalls = timesArgs[e][1])
                => exps'[e].repeatability + exps'[e].totalCalls = timesArgs'[e][1]]_vars

C34_Witness ==
    \E e \in Ptrs :
        /\ timesArgs[e] = <<2>>
        /\ exps[e].repeatability = 0
        /\ exps[e].totalCalls = 2
        /\ ~InSeq(e)
        /\ NoDispatch

\* C35: an expectation is consumed before its handler runs. The step that
\* gives a request its expectation counts the call, lowers a limited
\* remaining count and logs the request; the step in which the handler and
\* the write run leaves the counts, the sequence and the log as they are,
\* whether the handler returns an error, the write fails or the response
\* is sent.
C35_ConsumedBeforeHandle ==
    [][\A c \in Clients :
          /\ (pc[c] = "checked" /\ pc'[c] = "handling")
             => LET e == expected'[c]
                IN /\ exps'[e].totalCalls = exps[e].totalCalls + 1
                   /\ exps'[e].repeatability =
                         IF exps[e].repeatability > 0
                         THEN exps[e].repeatability - 1
                         ELSE exps[e].repeatability
                   /\ Requests' = Append(Requests, exps'[e])
          /\ (pc[c] = "handling" /\ pc'[c] = "done")
             => /\ exps' = exps
                /\ expectations' = expectations
                /\ Requests' = Requests]_vars

C35_Witness ==
    /\ pc[1] = "done" /\ pc[2] = "done"
    /\ expected[1] # 0 /\ expected[2] # 0 /\ expected[1] # expected[2]
    /\ exps[expected[1]].run.err = Nil
    /\ resp[1].status = StatusOK /\ resp[1].body = Nil
    /\ reported # <<>> /\ reported[1] = NoErrorReport(WriteErrText)
    /\ exps[expected[2]].run.err # Nil
    /\ resp[2].status = StatusInternalServerError
    /\ Len(reported) = 2
    /\ Len(Requests) = 2
    /\ exps[expected[1]].totalCalls = 1 /\ exps[expected[2]].totalCalls = 1
    /\ expectations = <<>>

\* C36: an expectation that has left the live sequence is never offered
\* again. No step puts a registered expectation back into the sequence,
\* whatever Times does to its count afterwards; a request is only ever given
\* an expectation that is in the sequence; and with every expectation
\* retired a request is refused as unexpected until Expect registers a new
\* one.
C36_NeverOfferedAgain ==
    [][/\ \A e \in Ptrs :
             ~InSeq(e) => \A k \in 1..Len(expectations') : expectations'[k] # e
       /\ \A c \in Clients :
             (expected'[c] # expected[c] /\ expected'[c] # 0) => InSeq(expected'[c])
       /\ \A c \in Clients :
             (pc[c] = "locked" /\ pc'[c] # "locked" /\ expectations = <<>>)
             => /\ pc'[c] = "done"
                /\ expected'[c] = 0
                /\ resp'[c].status = StatusInternalServerError]_vars

C36_Witness ==
    \E e \in Ptrs :
        /\ expectations = <<>>
        /\ exps[e].totalCalls = 1
        /\ timesArgs[e] = <<2>>
        /\ exps[e].repeatability = 2
        /\ pc[1] = "done" /\ expected[1] = e /\ resp[1].status = StatusOK
        /\ pc[2] = "done" /\ expected[2] = 0
        /\ IsUnexpected(resp[2])
        /\ MatchRequest(exps[e], req[2]) = Nil

\* ServeHTTP is at work on the client's request.
InDispatch(c) == pc[c] # "idle" /\ ~Finished(c)

\* What the setters of an expectation assign, the counts of the planner and
\* of ServeHTTP left out.
Configuration(e) ==
    [requestHeader |-> e.requestHeader, requestBody |-> e.requestBody,
     responseCode |-> e.responseCode, responseHeader |-> e.responseHeader,
     run |-> e.run, waitFor |-> e.waitFor, waitTime |-> e.waitTime]

\* C37: a request is handled with the configuration in force when its
\* dispatch began: from the moment ServeHTTP is at work on a request until
\* it returns, no setter acts on an expectation, so that a request that
\* arrives between Expect and a chained setter is served by what Expect
\* left (repeat once, status 200, empty body).
C37_ConfigurationAtDispatch ==
    [][(\E c \in Clients : InDispatch(c))
       => /\ timesArgs' = timesArgs
          /\ \A e \in Ptrs : Configuration(exps'[e]) = Configuration(exps[e])]_vars

\* No request holds the server lock, and every request ServeHTTP has
\* returned from has had its status written.
Settled ==
    /\ mu = 0
    /\ \A c \in Clients :
          /\ ~InDispatch(c)
          /\ pc[c] = "done" => resp[c].status # 0

\* C38: every request that ServeHTTP has begun to serve is eventually
\* answered, the status written, ServeHTTP returned and the server lock
\* released, when the wait of its expectation ends and the handler returns,
\* on every path: again and again the server is in a state where no request
\* is being served, all that were begun are answered and the lock is free.
C38_Answered == []<>Settled

C38_Witness ==
    /\ pc[1] = "done" /\ expected[1] # 0
    /\ exps[expected[1]].waitFor # 0
    /\ resp[1].status = StatusOK /\ resp[1].body = Nil
    /\ Len(reported) = 2
    /\ reported[1] = NoErrorReport(WriteErrText)
    /\ pc[2] = "done" /\ expected[2] = 0 /\ IsUnexpected(resp[2])
    /\ mu = 0

\* C39: a response handler that calls Server.Expect or a setter of an
\* expectation of the server that is serving it returns: the mutex its call
\* asks for is not one the goroutine of the request holds itself (s.mu is
\* a sync.Mutex, which its holder cannot take again).
C39_CallbackReturns ==
    \A c \in Clients : pc[c] \in {"callExpect", "callTimes"} => mu # c

====
